---- MODULE Spec2Model ----
(***************************************************************************)
(* Event-triage pipeline of PROJET-SOC (Atelier-D/soc-ia-mitre):           *)
(*   agents/features.py          FeatureExtractor                          *)
(*   agents/anomaly_detector.py  AnomalyDetector._normalize_score          *)
(*   agents/mitre_mapper.py      MitreMapper                               *)
(*   agents/trust_agent.py       TrustAgent                                *)
(*                                                                         *)
(* Representation.                                                         *)
(*  - A Python str is a sequence of one-character strings, so that split,  *)
(*    strip, lower, int() and re.search are computed, not assumed.         *)
(*  - A Python float that the code derives with exp/log is a fixed-point   *)
(*    integer with FxScale units per 1.0; a ratio of two ints is the pair  *)
(*    [num, den].                                                          *)
(*  - A dict is a function whose DOMAIN is the set of keys that are        *)
(*    present; an absent key is a key outside the DOMAIN.                  *)
(***************************************************************************)
EXTENDS Integers, Sequences, FiniteSets, TLC

VARIABLES
    \* FeatureExtractor (features.py)
    event_history,   \* self.event_history: sequence of events
    fx_event,        \* id of the event of the last extract() call, 0 before
    fx_features,     \* dict returned by the last extract() call
    fx_vector,       \* get_feature_vector(fx_features)
    fx_raised,       \* TRUE iff the last extract() call raised
    fx_before,       \* self.event_history as it was when the last call began
    fx_now,          \* what datetime.now() returned during the last call
    fx_log,          \* every event passed to a completed extract(), in order
    fx_steps,        \* extract() calls made since Init
    \* FeatureExtractor._is_private_ip called on its own
    ip_arg,          \* the address string
    ip_result,       \* [called, raised, value] of the call
    \* AnomalyDetector._normalize_score
    norm_calls,      \* [raw, score] of the two most recent calls
    \* MitreMapper (mitre_mapper.py)
    statistics,      \* self.statistics
    map_arg,         \* id of the event of the last map_event() call, 0 before
    map_result,      \* list returned by the last map_event() call
    kc_arg,          \* argument of the last get_kill_chain() call
    kc_result,       \* list returned by the last get_kill_chain() call
    map_steps,       \* map_event() calls made since Init
    map_log,         \* the list every map_event() call returned, in order
    mx_arg,          \* ids of the events of the last create_mitre_matrix()
    mx_result,       \* [called, rows] of the last create_mitre_matrix()
    \* TrustAgent (trust_agent.py)
    temperature,     \* self.temperature, in tenths
    threshold,       \* self.threshold, fixed point
    calibration_data,\* self.calibration_data
    td_args,         \* arguments of the last calibrate_decision(), <<>> before
    td_analysis,     \* analysis returned by the last calibrate_decision()
    sc_arg,          \* raw score of the last _apply_temperature_scaling(), <<>> before
    sc_result,       \* score returned by the last _apply_temperature_scaling()
    ta_call,         \* last call that reads or writes the buffer: [op, args,
                     \* before, result], op "none" before
    ta_steps,        \* such calls made since Init
    \* XAIExplainer (xai_explainer.py)
    xp_args,         \* arguments of the last explain(), <<>> before
    xp_result,       \* [raised, value] of the last explain()
    xp_steps,        \* explain() calls made since Init
    \* SOCPipeline (main.py); its detector's extractor is event_history and
    \* fx_log, its mapper statistics, its trust agent temperature and threshold
    pl_stats,        \* self.stats
    pl_results,      \* self.results
    pl_call,         \* last process_event or process_batch: [op, items, before,
                     \* raised, returned, stage, steps, ids], op "none" before
    pl_steps         \* such calls made since Init

fx_vars == <<event_history, fx_event, fx_features, fx_vector, fx_raised,
             fx_before, fx_now, fx_log, fx_steps>>
ip_vars == <<ip_arg, ip_result>>
norm_vars == <<norm_calls>>
map_vars == <<statistics, map_arg, map_result, kc_arg, kc_result, map_steps,
              map_log, mx_arg, mx_result>>
trust_vars == <<temperature, threshold, calibration_data, td_args, td_analysis,
                sc_arg, sc_result, ta_call, ta_steps>>
xp_vars == <<xp_args, xp_result, xp_steps>>
pl_vars == <<pl_stats, pl_results, pl_call, pl_steps>>
vars == <<fx_vars, ip_vars, norm_vars, map_vars, trust_vars, xp_vars, pl_vars>>

(***************************************************************************)
(* Python str, int() and the re patterns the code uses                     *)
(***************************************************************************)
Digits == {"0", "1", "2", "3", "4", "5", "6", "7", "8", "9"}
LowerLetters == {"a", "b", "c", "d", "e", "f", "g", "h", "i", "j", "k", "l", "m",
                 "n", "o", "p", "q", "r", "s", "t", "u", "v", "w", "x", "y", "z"}
UpperLetters == {"A", "B", "C", "D", "E", "F", "G", "H", "I", "J", "K", "L", "M",
                 "N", "O", "P", "Q", "R", "S", "T", "U", "V", "W", "X", "Y", "Z"}
Whitespace == {" ", "\t", "\n"}

LowerOf == [c \in UpperLetters |->
              CASE c = "A" -> "a" [] c = "B" -> "b" [] c = "C" -> "c" [] c = "D" -> "d"
                [] c = "E" -> "e" [] c = "F" -> "f" [] c = "G" -> "g" [] c = "H" -> "h"
                [] c = "I" -> "i" [] c = "J" -> "j" [] c = "K" -> "k" [] c = "L" -> "l"
                [] c = "M" -> "m" [] c = "N" -> "n" [] c = "O" -> "o" [] c = "P" -> "p"
                [] c = "Q" -> "q" [] c = "R" -> "r" [] c = "S" -> "s" [] c = "T" -> "t"
                [] c = "U" -> "u" [] c = "V" -> "v" [] c = "W" -> "w" [] c = "X" -> "x"
                [] c = "Y" -> "y" [] c = "Z" -> "z"]

DigitVal == [c \in Digits |->
               CASE c = "0" -> 0 [] c = "1" -> 1 [] c = "2" -> 2 [] c = "3" -> 3
                 [] c = "4" -> 4 [] c = "5" -> 5 [] c = "6" -> 6 [] c = "7" -> 7
                 [] c = "8" -> 8 [] c = "9" -> 9]

\* c.lower()
LowerChar(c) == IF c \in UpperLetters THEN LowerOf[c] ELSE c
\* s.lower()
Lower(s) == [i \in 1..Len(s) |-> LowerChar(s[i])]
\* c.isalnum(), c.isspace()
IsAlnum(c) == c \in Digits \cup LowerLetters \cup UpperLetters
IsSpace(c) == c \in Whitespace
\* regex \w
IsWord(c) == IsAlnum(c) \/ c = "_"

\* s[i:i+len(sub)] == sub (i is 1-based)
MatchesAt(s, sub, i) ==
    /\ i + Len(sub) - 1 <= Len(s)
    /\ \A k \in 1..Len(sub) : s[i + k - 1] = sub[k]
\* sub in s
Contains(s, sub) == \E i \in 1..(Len(s) - Len(sub) + 1) : MatchesAt(s, sub, i)

\* s.split(sep) for a one-character separator: never empty, [''] for ''
RECURSIVE SplitFrom(_, _, _, _)
SplitFrom(s, sep, i, cur) ==
    IF i > Len(s) THEN <<cur>>
    ELSE IF s[i] = sep THEN <<cur>> \o SplitFrom(s, sep, i + 1, <<>>)
    ELSE SplitFrom(s, sep, i + 1, Append(cur, s[i]))
Split(s, sep) == SplitFrom(s, sep, 1, <<>>)

\* s.strip()
RECURSIVE LStrip(_)
LStrip(s) == IF s # <<>> /\ IsSpace(Head(s)) THEN LStrip(Tail(s)) ELSE s
RECURSIVE RStrip(_)
RStrip(s) ==
    IF s # <<>> /\ IsSpace(s[Len(s)]) THEN RStrip(SubSeq(s, 1, Len(s) - 1)) ELSE s
Strip(s) == RStrip(LStrip(s))

\* the value of a run of decimal digits
RECURSIVE DigitsValue(_)
DigitsValue(s) ==
    IF s = <<>> THEN 0
    ELSE 10 * DigitsValue(SubSeq(s, 1, Len(s) - 1)) + DigitVal[s[Len(s)]]
\* int(s): surrounding whitespace and one sign are accepted, anything else
\* that is not a non-empty run of digits raises ValueError
ParseInt(s) ==
    LET t == Strip(s)
        signed == t # <<>> /\ t[1] \in {"+", "-"}
        body == IF signed THEN Tail(t) ELSE t
        ok == body # <<>> /\ \A k \in 1..Len(body) : body[k] \in Digits
    IN  IF ~ok THEN [ok |-> FALSE, val |-> 0]
        ELSE [ok |-> TRUE,
              val |-> IF signed /\ t[1] = "-" THEN 0 - DigitsValue(body)
                      ELSE DigitsValue(body)]

Max(a, b) == IF a >= b THEN a ELSE b
Min(a, b) == IF a <= b THEN a ELSE b
Abs(a) == IF a >= 0 THEN a ELSE 0 - a

(***************************************************************************)
(* datetime: fromisoformat, weekday, now                                   *)
(***************************************************************************)
\* s.replace('Z', '+00:00'): every 'Z' is replaced
RECURSIVE ReplaceZ(_)
ReplaceZ(s) ==
    IF s = <<>> THEN <<>>
    ELSE IF Head(s) = "Z" THEN <<"+", "0", "0", ":", "0", "0">> \o ReplaceZ(Tail(s))
    ELSE <<Head(s)>> \o ReplaceZ(Tail(s))

AllDigits(s) == \A k \in 1..Len(s) : s[k] \in Digits
IsLeap(y) == (y % 4 = 0 /\ y % 100 # 0) \/ y % 400 = 0
DaysInMonth(y, m) ==
    IF m = 2 THEN (IF IsLeap(y) THEN 29 ELSE 28)
    ELSE IF m \in {4, 6, 9, 11} THEN 30 ELSE 31
RECURSIVE DaysBeforeMonth(_, _)
DaysBeforeMonth(y, m) ==
    IF m <= 1 THEN 0 ELSE DaysBeforeMonth(y, m - 1) + DaysInMonth(y, m - 1)
\* date.toordinal(): 1 for 0001-01-01
ToOrdinal(y, m, d) ==
    (y - 1) * 365 + (y - 1) \div 4 - (y - 1) \div 100 + (y - 1) \div 400
    + DaysBeforeMonth(y, m) + d
\* dt.weekday(): 0 is Monday
Weekday(dt) == (ToOrdinal(dt.year, dt.month, dt.day) + 6) % 7

BadDate == [ok |-> FALSE, year |-> 1, month |-> 1, day |-> 1,
            hour |-> 0, minute |-> 0, second |-> 0, aware |-> FALSE, offset |-> 0]

\* the time part "HH[:MM[:SS[.fff[fff]]]]" of an ISO string, tz suffix removed
ParseTimePart(t) ==
    LET n == Len(t)
        shape == /\ n \in {2, 5, 8, 12, 15}
                 /\ AllDigits(SubSeq(t, 1, 2))
                 /\ n >= 5 => (t[3] = ":" /\ AllDigits(SubSeq(t, 4, 5)))
                 /\ n >= 8 => (t[6] = ":" /\ AllDigits(SubSeq(t, 7, 8)))
                 /\ n >= 12 => (t[9] = "." /\ AllDigits(SubSeq(t, 10, n)))
        h == DigitsValue(SubSeq(t, 1, 2))
        mi == IF n >= 5 THEN DigitsValue(SubSeq(t, 4, 5)) ELSE 0
        s == IF n >= 8 THEN DigitsValue(SubSeq(t, 7, 8)) ELSE 0
    IN  IF shape /\ h <= 23 /\ mi <= 59 /\ s <= 59
        THEN [ok |-> TRUE, hour |-> h, minute |-> mi, second |-> s]
        ELSE [ok |-> FALSE, hour |-> 0, minute |-> 0, second |-> 0]

\* the suffix "+HH:MM" / "-HH:MM" of an ISO string
ParseTzPart(z) ==
    LET shape == /\ Len(z) = 6
                 /\ z[1] \in {"+", "-"}
                 /\ AllDigits(SubSeq(z, 2, 3)) /\ z[4] = ":" /\ AllDigits(SubSeq(z, 5, 6))
        hh == DigitsValue(SubSeq(z, 2, 3))
        mm == DigitsValue(SubSeq(z, 5, 6))
    IN  IF shape /\ hh <= 23 /\ mm <= 59
        THEN [ok |-> TRUE, offset |-> (IF z[1] = "-" THEN -1 ELSE 1) * (hh * 60 + mm)]
        ELSE [ok |-> FALSE, offset |-> 0]

\* datetime.fromisoformat(s): "YYYY-MM-DD[*HH[:MM[:SS[.fff[fff]]]][+HH:MM]]";
\* ok = FALSE stands for ValueError
FromIsoformat(s) ==
    LET n == Len(s)
        dateShape == /\ n >= 10
                     /\ AllDigits(SubSeq(s, 1, 4)) /\ s[5] = "-"
                     /\ AllDigits(SubSeq(s, 6, 7)) /\ s[8] = "-"
                     /\ AllDigits(SubSeq(s, 9, 10))
        y == DigitsValue(SubSeq(s, 1, 4))
        m == DigitsValue(SubSeq(s, 6, 7))
        d == DigitsValue(SubSeq(s, 9, 10))
        dateOk == /\ dateShape /\ y >= 1 /\ m \in 1..12
                  /\ d >= 1 /\ d <= DaysInMonth(y, m)
        rest == IF n >= 12 THEN SubSeq(s, 12, n) ELSE <<>>
        tzAt == {k \in 1..Len(rest) : rest[k] \in {"+", "-"}}
        cut == IF tzAt = {} THEN Len(rest) + 1
               ELSE CHOOSE k \in tzAt : \A j \in tzAt : k <= j
        tm == ParseTimePart(SubSeq(rest, 1, cut - 1))
        tz == IF tzAt = {} THEN [ok |-> TRUE, offset |-> 0]
              ELSE ParseTzPart(SubSeq(rest, cut, Len(rest)))
    IN  IF ~dateOk \/ n = 11 THEN BadDate
        ELSE IF n = 10
        THEN [ok |-> TRUE, year |-> y, month |-> m, day |-> d,
              hour |-> 0, minute |-> 0, second |-> 0, aware |-> FALSE, offset |-> 0]
        ELSE IF ~tm.ok \/ ~tz.ok THEN BadDate
        ELSE [ok |-> TRUE, year |-> y, month |-> m, day |-> d,
              hour |-> tm.hour, minute |-> tm.minute, second |-> tm.second,
              aware |-> tzAt # {}, offset |-> tz.offset]

\* the values datetime.now() may return: a naive local date and time
Clock(y, m, d, h, mi, s) ==
    [ok |-> TRUE, year |-> y, month |-> m, day |-> d,
     hour |-> h, minute |-> mi, second |-> s, aware |-> FALSE, offset |-> 0]
ClockValues == {Clock(2024, 1, 17, 14, 30, 0),    \* a Wednesday afternoon
                Clock(2024, 1, 20, 23, 15, 0)}    \* a Saturday night

(***************************************************************************)
(* Python values and dicts                                                 *)
(***************************************************************************)
PyStr(s) == [t |-> "str", v |-> s]
PyInt(n) == [t |-> "int", v |-> n]
PyNone == [t |-> "PyNone", v |-> 0]
\* d.get(k, default)
Get(d, k, default) == IF k \in DOMAIN d THEN d[k] ELSE default
\* bool(x)
Truthy(x) == IF x.t = "str" THEN x.v # <<>> ELSE IF x.t = "int" THEN x.v # 0 ELSE FALSE
\* a float that is the quotient of two ints
Ratio(n, d) == [num |-> n, den |-> d]
\* seq[-n:]
LastN(seq, n) == SubSeq(seq, Max(1, Len(seq) - n + 1), Len(seq))

(***************************************************************************)
(* The events the model feeds to the pipeline                              *)
(***************************************************************************)
\* '2024-01-15T10:23:45Z'
TS_mon_z ==
    <<"2", "0", "2", "4", "-", "0", "1", "-", "1", "5", "T", "1", "0", ":", "2", "3",
      ":", "4", "5", "Z">>
\* '2024-01-15T10:23:50Z'
TS_mon_z2 ==
    <<"2", "0", "2", "4", "-", "0", "1", "-", "1", "5", "T", "1", "0", ":", "2", "3",
      ":", "5", "0", "Z">>
\* '2024-01-20T23:30:00'
TS_sat_naive ==
    <<"2", "0", "2", "4", "-", "0", "1", "-", "2", "0", "T", "2", "3", ":", "3", "0",
      ":", "0", "0">>
\* 'not-a-date'
TS_garbage ==
    <<"n", "o", "t", "-", "a", "-", "d", "a", "t", "e">>
\* '2024-13-45T10:00:00'
TS_badmonth ==
    <<"2", "0", "2", "4", "-", "1", "3", "-", "4", "5", "T", "1", "0", ":", "0", "0",
      ":", "0", "0">>
\* '192.168.1.100'
IP_internal ==
    <<"1", "9", "2", ".", "1", "6", "8", ".", "1", ".", "1", "0", "0">>
\* '10.0.0.1'
IP_gateway ==
    <<"1", "0", ".", "0", ".", "0", ".", "1">>
\* '203.0.113.10'
IP_attacker ==
    <<"2", "0", "3", ".", "0", ".", "1", "1", "3", ".", "1", "0">>
\* '10.0.0.5'
IP_scanner ==
    <<"1", "0", ".", "0", ".", "0", ".", "5">>
\* 'ssh_attempt'
T_ssh_attempt ==
    <<"s", "s", "h", "_", "a", "t", "t", "e", "m", "p", "t">>
\* 'http_request'
T_http_request ==
    <<"h", "t", "t", "p", "_", "r", "e", "q", "u", "e", "s", "t">>
\* 'port_scan'
T_port_scan ==
    <<"p", "o", "r", "t", "_", "s", "c", "a", "n">>
\* 'dns_query'
T_dns_query ==
    <<"d", "n", "s", "_", "q", "u", "e", "r", "y">>
\* 'file_access'
T_file_access ==
    <<"f", "i", "l", "e", "_", "a", "c", "c", "e", "s", "s">>
\* 'login_success'
T_login_success ==
    <<"l", "o", "g", "i", "n", "_", "s", "u", "c", "c", "e", "s", "s">>
\* 'login_failure'
T_login_failure ==
    <<"l", "o", "g", "i", "n", "_", "f", "a", "i", "l", "u", "r", "e">>
\* 'Failed password for invalid user admin from 192.168.1.100'
MSG_failed_pw ==
    <<"F", "a", "i", "l", "e", "d", " ", "p", "a", "s", "s", "w", "o", "r", "d", " ",
      "f", "o", "r", " ", "i", "n", "v", "a", "l", "i", "d", " ", "u", "s", "e", "r",
      " ", "a", "d", "m", "i", "n", " ", "f", "r", "o", "m", " ", "1", "9", "2", ".",
      "1", "6", "8", ".", "1", ".", "1", "0", "0">>
\* 'Failed password for invalid user admin from 203.0.113.10 port 54321 ssh2'
MSG_spec ==
    <<"F", "a", "i", "l", "e", "d", " ", "p", "a", "s", "s", "w", "o", "r", "d", " ",
      "f", "o", "r", " ", "i", "n", "v", "a", "l", "i", "d", " ", "u", "s", "e", "r",
      " ", "a", "d", "m", "i", "n", " ", "f", "r", "o", "m", " ", "2", "0", "3", ".",
      "0", ".", "1", "1", "3", ".", "1", "0", " ", "p", "o", "r", "t", " ", "5", "4",
      "3", "2", "1", " ", "s", "s", "h", "2">>
\* 'GET /admin HTTP/1.1 404'
MSG_http ==
    <<"G", "E", "T", " ", "/", "a", "d", "m", "i", "n", " ", "H", "T", "T", "P", "/",
      "1", ".", "1", " ", "4", "0", "4">>
\* 'nmap scan detected'
MSG_nmap ==
    <<"n", "m", "a", "p", " ", "s", "c", "a", "n", " ", "d", "e", "t", "e", "c", "t",
      "e", "d">>
\* 'Nmap scan report: hydra session over http'
MSG_scan_report ==
    <<"N", "m", "a", "p", " ", "s", "c", "a", "n", " ", "r", "e", "p", "o", "r",
      "t", ":", " ", "h", "y", "d", "r", "a", " ", "s", "e", "s", "s", "i", "o",
      "n", " ", "o", "v", "e", "r", " ", "h", "t", "t", "p">>
\* 'Access denied'
MSG_denied ==
    <<"A", "c", "c", "e", "s", "s", " ", "d", "e", "n", "i", "e", "d">>
\* 'failed'
K_failed ==
    <<"f", "a", "i", "l", "e", "d">>
\* 'denied'
K_denied ==
    <<"d", "e", "n", "i", "e", "d">>
\* Events[1] is the event of features.py's own test, Events[2] the event of the
\* mapper scenario; the others vary which fields are present and how the
\* timestamp is malformed.
Events ==
    << [timestamp |-> PyStr(TS_mon_z), src_ip |-> PyStr(IP_internal),
        dst_ip |-> PyStr(IP_gateway), src_port |-> PyInt(54321), dst_port |-> PyInt(22),
        event_type |-> PyStr(T_ssh_attempt), message |-> PyStr(MSG_failed_pw)],
       [message |-> PyStr(MSG_spec), event_type |-> PyStr(T_ssh_attempt),
        src_ip |-> PyStr(IP_attacker)],
       [timestamp |-> PyStr(TS_sat_naive), src_ip |-> PyStr(IP_internal),
        dst_port |-> PyInt(80), event_type |-> PyStr(T_http_request),
        message |-> PyStr(MSG_http)],
       [timestamp |-> PyStr(TS_garbage), src_ip |-> PyStr(IP_scanner),
        event_type |-> PyStr(T_port_scan), message |-> PyStr(MSG_nmap)],
       [timestamp |-> PyInt(1705314225), src_ip |-> PyStr(IP_internal),
        event_type |-> PyStr(T_ssh_attempt), message |-> PyStr(MSG_denied)],
       <<>>,
       [timestamp |-> PyStr(TS_badmonth), src_ip |-> PyStr(IP_attacker),
        event_type |-> PyStr(T_login_failure), message |-> PyStr(MSG_denied)],
       [timestamp |-> PyStr(TS_mon_z2), src_ip |-> PyStr(IP_internal),
        dst_ip |-> PyStr(IP_gateway), dst_port |-> PyInt(22),
        event_type |-> PyStr(T_ssh_attempt), message |-> PyStr(MSG_failed_pw)],
       [src_ip |-> PyStr(IP_scanner), event_type |-> PyStr(T_port_scan),
        message |-> PyStr(MSG_scan_report)] >>
EventIds == 1..Len(Events)

(***************************************************************************)
(* features.py: FeatureExtractor                                           *)
(***************************************************************************)
max_history == 1000
RecentWindow == 100
FailureWindow == 20
FailureMin == 3
RapidWindow == 10
RapidMin == 5

\* the body of the try block of _is_private_ip; exc stands for the ValueError
\* of int() or the IndexError of parts[1]
IsPrivateBody(ip) ==
    LET raw == Split(ip, ".")
        ints == [k \in 1..Len(raw) |-> ParseInt(raw[k])]
        parts == [k \in 1..Len(raw) |-> ints[k].val]
    IN  IF \E k \in 1..Len(raw) : ~ints[k].ok THEN [exc |-> TRUE, value |-> FALSE]
        ELSE IF parts[1] = 10 THEN [exc |-> FALSE, value |-> TRUE]
        ELSE IF parts[1] = 172 /\ Len(parts) < 2 THEN [exc |-> TRUE, value |-> FALSE]
        ELSE IF parts[1] = 172 /\ 16 <= parts[2] /\ parts[2] <= 31
             THEN [exc |-> FALSE, value |-> TRUE]
        ELSE IF parts[1] = 192 /\ Len(parts) < 2 THEN [exc |-> TRUE, value |-> FALSE]
        ELSE [exc |-> FALSE, value |-> parts[1] = 192 /\ parts[2] = 168]

_is_private_ip(ip) ==
    IF ip = <<>> THEN [raised |-> FALSE, value |-> FALSE]
    ELSE LET b == IsPrivateBody(ip)
         IN  IF b.exc THEN [raised |-> FALSE, value |-> FALSE]
             ELSE [raised |-> FALSE, value |-> b.value]

\* the body of the try block of _extract_temporal_features; exc stands for the
\* ValueError of fromisoformat
TemporalBody(event, now) ==
    LET timestamp == Get(event, "timestamp", PyNone)
        dt == IF timestamp.t = "str" THEN FromIsoformat(ReplaceZ(timestamp.v)) ELSE now
    IN  IF ~dt.ok THEN [exc |-> TRUE, features |-> <<>>]
        ELSE [exc |-> FALSE,
              features |-> [hour |-> dt.hour,
                            day_of_week |-> Weekday(dt),
                            is_weekend |-> IF Weekday(dt) >= 5 THEN 1 ELSE 0,
                            is_night |-> IF dt.hour < 6 \/ dt.hour > 22 THEN 1 ELSE 0]]

\* _extract_temporal_features without its except clause
temporal_without_except(event, now) ==
    LET b == TemporalBody(event, now)
    IN  IF b.exc THEN [raised |-> TRUE, features |-> <<>>]
        ELSE [raised |-> FALSE, features |-> b.features]

_extract_temporal_features(event, now) ==
    LET b == TemporalBody(event, now)
    IN  IF b.exc
        THEN [raised |-> FALSE,
              features |-> [hour |-> 0, day_of_week |-> 0, is_weekend |-> 0, is_night |-> 0]]
        ELSE [raised |-> FALSE, features |-> b.features]

CommonPorts == {22, 80, 443, 3389, 21, 23}

\* _extract_network_features setting is_common_port only when dst_port is given
network_port_flag_optional(event) ==
    LET src == _is_private_ip(Get(event, "src_ip", PyStr(<<>>)).v)
        dst == _is_private_ip(Get(event, "dst_ip", PyStr(<<>>)).v)
        src_port == Get(event, "src_port", PyInt(0))
        dst_port == Get(event, "dst_port", PyInt(0))
        base == [src_is_private |-> IF src.value THEN 1 ELSE 0,
                 dst_is_private |-> IF dst.value THEN 1 ELSE 0,
                 src_port |-> IF Truthy(src_port) THEN src_port.v ELSE 0,
                 dst_port |-> IF Truthy(dst_port) THEN dst_port.v ELSE 0]
    IN  [raised |-> FALSE,
         features |-> IF "dst_port" \in DOMAIN event
                      THEN base @@ [is_common_port |->
                                       IF dst_port.v \in CommonPorts THEN 1 ELSE 0]
                      ELSE base]

_extract_network_features(event) ==
    LET src_ip == Get(event, "src_ip", PyStr(<<>>))
        dst_ip == Get(event, "dst_ip", PyStr(<<>>))
        src_port == Get(event, "src_port", PyInt(0))
        dst_port == Get(event, "dst_port", PyInt(0))
        src == _is_private_ip(src_ip.v)
        dst == _is_private_ip(dst_ip.v)
    IN  [raised |-> src.raised \/ dst.raised,
         features |-> [src_is_private |-> IF src.value THEN 1 ELSE 0,
                       dst_is_private |-> IF dst.value THEN 1 ELSE 0,
                       src_port |-> IF Truthy(src_port) THEN src_port.v ELSE 0,
                       dst_port |-> IF Truthy(dst_port) THEN dst_port.v ELSE 0,
                       is_common_port |-> IF dst_port.v \in CommonPorts THEN 1 ELSE 0]]

\* dt.isoformat() of a naive datetime without microseconds
TwoDigits(n) == <<CHOOSE c \in Digits : DigitVal[c] = (n \div 10) % 10,
                  CHOOSE c \in Digits : DigitVal[c] = n % 10>>
IsoFormat(dt) ==
    TwoDigits(dt.year \div 100) \o TwoDigits(dt.year % 100) \o <<"-">>
    \o TwoDigits(dt.month) \o <<"-">> \o TwoDigits(dt.day) \o <<"T">>
    \o TwoDigits(dt.hour) \o <<":">> \o TwoDigits(dt.minute) \o <<":">>
    \o TwoDigits(dt.second)

\* seconds from midnight of day 1 to dt, as UTC when dt is aware
EpochSeconds(dt) ==
    (ToOrdinal(dt.year, dt.month, dt.day) - ToOrdinal(2024, 1, 1)) * 86400
    + dt.hour * 3600 + dt.minute * 60 + dt.second - dt.offset * 60

\* e.get('src_ip') == src_ip, with src_ip = event.get('src_ip', ''), for a
\* past event e and a current event
SameSrcIp(e, event) == Get(e, "src_ip", PyNone) = Get(event, "src_ip", PyStr(<<>>))
\* e.get('event_type') == event_type, with event_type = event.get('event_type', '')
SameEventType(e, event) ==
    Get(e, "event_type", PyNone) = Get(event, "event_type", PyStr(<<>>))
\* both comparisons depend on the two events alone: they are evaluated once
\* per pair of Events; ip_match[id] are the past events that match event id
ip_match == [id \in EventIds |-> {p \in EventIds : SameSrcIp(Events[p], Events[id])}]
type_match == [id \in EventIds |-> {p \in EventIds : SameEventType(Events[p], Events[id])}]

\* the loop "for past_event in reversed(self.event_history)" over the entries
\* lo..hi: the index of the first entry it meets that is in returning (its
\* src_ip and event_type match and its try block returns), 0 when the loop
\* ends without one. The upper half is scanned first, then the lower half.
RECURSIVE ScanBack(_, _, _, _)
ScanBack(history, lo, hi, returning) ==
    IF lo > hi THEN 0
    ELSE IF lo = hi THEN (IF history[lo] \in returning THEN lo ELSE 0)
    ELSE LET mid == (lo + hi) \div 2
             upper == ScanBack(history, mid + 1, hi, returning)
         IN  IF upper # 0 THEN upper ELSE ScanBack(history, lo, mid, returning)

\* the inner try block of _time_since_last_similar on one past event: ok is
\* FALSE when it raises (replace on a non-string, fromisoformat, or the
\* subtraction of a naive and an aware datetime), and the loop goes on
PastTime(past_event) ==
    LET ts == Get(past_event, "timestamp", PyStr(<<>>))
    IN  IF ts.t = "str" THEN FromIsoformat(ReplaceZ(ts.v)) ELSE BadDate
\* evaluated once per event of Events
past_time_cache == [p \in EventIds |-> PastTime(Events[p])]
PastDelta(current_time, p) ==
    LET past_time == past_time_cache[p]
    IN  IF ~past_time.ok \/ past_time.aware # current_time.aware
        THEN [ok |-> FALSE, delta |-> 0]
        ELSE [ok |-> TRUE, delta |-> EpochSeconds(current_time) - EpochSeconds(past_time)]

\* _time_since_last_similar giving up at the newest matching entry when its
\* try block raises
time_since_stops_at_newest(id, history, now) ==
    LET ts == Get(Events[id], "timestamp", PyStr(IsoFormat(now)))
        current_time == IF ts.t = "str" THEN FromIsoformat(ReplaceZ(ts.v)) ELSE BadDate
        found == ScanBack(history, 1, Len(history), ip_match[id] \cap type_match[id])
        past == PastDelta(current_time, history[found])
    IN  IF ~current_time.ok THEN Ratio(9999, 1)
        ELSE IF found = 0 THEN Ratio(9999, 1)
        ELSE IF ~past.ok THEN Ratio(9999, 1)
        ELSE IF past.delta * 10 >= 1 THEN Ratio(past.delta, 1) ELSE Ratio(1, 10)

_time_since_last_similar(id, history, now) ==
    LET ts == Get(Events[id], "timestamp", PyStr(IsoFormat(now)))
        current_time == IF ts.t = "str" THEN FromIsoformat(ReplaceZ(ts.v)) ELSE BadDate
        returning == {p \in ip_match[id] \cap type_match[id] :
                         PastDelta(current_time, p).ok}
        found == ScanBack(history, 1, Len(history), returning)
        delta == PastDelta(current_time, history[found]).delta
    IN  IF ~current_time.ok THEN Ratio(9999, 1)
        ELSE IF found = 0 THEN Ratio(9999, 1)
        ELSE IF delta * 10 >= 1 THEN Ratio(delta, 1) ELSE Ratio(1, 10)

\* _extract_frequency_features counting over the whole history
frequency_over_whole_history(id, history, now) ==
    [raised |-> FALSE,
     features |-> [same_ip_frequency |->
                       Cardinality({k \in 1..Len(history) : history[k] \in ip_match[id]}),
                   same_type_frequency |->
                       Cardinality({k \in 1..Len(history) : history[k] \in type_match[id]}),
                   time_since_last_similar |->
                       _time_since_last_similar(id, history, now)]]

_extract_frequency_features(id, history, now) ==
    LET recent_events == LastN(history, RecentWindow)
        same_ip_count ==
            Cardinality({k \in 1..Len(recent_events) : recent_events[k] \in ip_match[id]})
        same_type_count ==
            Cardinality({k \in 1..Len(recent_events) : recent_events[k] \in type_match[id]})
    IN  [raised |-> FALSE,
         features |-> [same_ip_frequency |-> same_ip_count,
                       same_type_frequency |-> same_type_count,
                       time_since_last_similar |->
                           _time_since_last_similar(id, history, now)]]

suspicious_keywords ==
    << K_failed,
       <<"i", "n", "v", "a", "l", "i", "d">>,
       K_denied,
       <<"e", "r", "r", "o", "r">>,
       <<"a", "t", "t", "a", "c", "k">>,
       <<"s", "c", "a", "n">>,
       <<"e", "x", "p", "l", "o", "i", "t">>,
       <<"b", "r", "u", "t", "e">>,
       <<"u", "n", "a", "u", "t", "h", "o", "r", "i", "z", "e", "d">>,
       <<"f", "o", "r", "b", "i", "d", "d", "e", "n">> >>

\* re.search(r'\d{1,3}\.\d{1,3}\.\d{1,3}\.\d{1,3}', s)
DigitRun(s, i, n) == i + n - 1 <= Len(s) /\ \A k \in i..(i + n - 1) : s[k] \in Digits
Dot(s, i) == i <= Len(s) /\ s[i] = "."
HasIpPattern(s) ==
    \E i \in 1..Len(s) : \E a, b, c, d \in 1..3 :
        /\ DigitRun(s, i, a) /\ Dot(s, i + a)
        /\ DigitRun(s, i + a + 1, b) /\ Dot(s, i + a + 1 + b)
        /\ DigitRun(s, i + a + b + 2, c) /\ Dot(s, i + a + b + 2 + c)
        /\ DigitRun(s, i + a + b + c + 3, d)
\* re.search(r'https?://', s)
HasUrlPattern(s) ==
    \/ Contains(s, <<"h", "t", "t", "p", ":", "/", "/">>)
    \/ Contains(s, <<"h", "t", "t", "p", "s", ":", "/", "/">>)
\* the start positions of the matches of r'\b([1-5]\d{2})\b' in s
HttpCodeAt(s) ==
    {i \in 1..(Len(s) - 2) :
        /\ s[i] \in {"1", "2", "3", "4", "5"}
        /\ s[i + 1] \in Digits /\ s[i + 2] \in Digits
        /\ (i = 1 \/ ~IsWord(s[i - 1]))
        /\ (i + 3 > Len(s) \/ ~IsWord(s[i + 3]))}

_extract_content_features(event) ==
    LET message == Lower(Get(event, "message", PyStr(<<>>)).v)
        special == Cardinality({k \in 1..Len(message) :
                        ~IsAlnum(message[k]) /\ ~IsSpace(message[k])})
        codes == HttpCodeAt(message)
        first == CHOOSE i \in codes : \A j \in codes : i <= j
        http_code == IF codes = {} THEN 0 ELSE DigitsValue(SubSeq(message, first, first + 2))
    IN  [raised |-> FALSE,
         features |-> [suspicious_keyword_count |->
                           Cardinality({k \in 1..Len(suspicious_keywords) :
                               Contains(message, suspicious_keywords[k])}),
                       message_length |-> Len(message),
                       special_char_ratio |-> Ratio(special, Max(Len(message), 1)),
                       has_ip_pattern |-> IF HasIpPattern(message) THEN 1 ELSE 0,
                       has_url_pattern |-> IF HasUrlPattern(message) THEN 1 ELSE 0,
                       http_code |-> http_code,
                       is_http_error |-> IF http_code >= 400 THEN 1 ELSE 0]]

\* 'failed' in message or 'denied' in message, message lower-cased
IsFailureMessage(event) ==
    LET message == Lower(Get(event, "message", PyStr(<<>>)).v)
    IN  Contains(message, K_failed) \/ Contains(message, K_denied)

\* _extract_content_features and the failure test depend on the event alone:
\* they are evaluated once per event of Events
content_cache == [i \in EventIds |-> _extract_content_features(Events[i])]
failure_cache == [i \in EventIds |-> IsFailureMessage(Events[i])]

\* _is_repeated_failure counting the current event among the recent ones
repeated_failure_counts_current(id, history) ==
    LET recent == LastN(Append(history, id), FailureWindow)
        failure_count ==
            Cardinality({k \in 1..Len(recent) :
                recent[k] \in ip_match[id] /\ failure_cache[recent[k]]})
    IN  IF ~failure_cache[id] THEN 0
        ELSE IF failure_count >= FailureMin THEN 1 ELSE 0

_is_repeated_failure(id, history) ==
    LET recent == LastN(history, FailureWindow)
        failure_count ==
            Cardinality({k \in 1..Len(recent) :
                recent[k] \in ip_match[id] /\ failure_cache[recent[k]]})
    IN  IF ~failure_cache[id] THEN 0
        ELSE IF failure_count >= FailureMin THEN 1 ELSE 0

_is_rapid_succession(id, history) ==
    LET recent == LastN(history, RapidWindow)
        same_ip_recent == {k \in 1..Len(recent) : recent[k] \in ip_match[id]}
    IN  IF Cardinality(same_ip_recent) >= RapidMin THEN 1 ELSE 0

type_mapping ==
    <<<<T_ssh_attempt, 1>>, <<T_http_request, 2>>, <<T_port_scan, 3>>,
      <<T_dns_query, 4>>, <<T_file_access, 5>>, <<T_login_success, 6>>,
      <<T_login_failure, 7>>>>

_extract_behavioral_features(id, history) ==
    LET event_type == Get(Events[id], "event_type", PyStr(<<>>)).v
        hits == {k \in 1..Len(type_mapping) : type_mapping[k][1] = event_type}
    IN  [raised |-> FALSE,
         features |-> [event_type_encoded |->
                           IF hits = {} THEN 0 ELSE type_mapping[CHOOSE k \in hits : TRUE][2],
                       is_repeated_failure |-> _is_repeated_failure(id, history),
                       is_rapid_succession |-> _is_rapid_succession(id, history)]]

\* _update_history keeping the oldest max_history entries
update_history_keeps_oldest(id, history) ==
    LET appended == Append(history, id)
    IN  IF Len(appended) > max_history THEN SubSeq(appended, 1, max_history) ELSE appended

_update_history(id, history) ==
    LET appended == Append(history, id)
    IN  IF Len(appended) > max_history THEN LastN(appended, max_history) ELSE appended

\* extract(Events[id]) on a history, datetime.now() returning now: whether it
\* raised, the dict it returned and the history it left
\* the end of extract, groups being the results of the five groups:
\* features.update(...) five times, then self._update_history(event)
merge_groups(groups, id, history) ==
    IF \E g \in 1..Len(groups) : groups[g].raised
    THEN [raised |-> TRUE, features |-> <<>>, history |-> history]
    ELSE [raised |-> FALSE,
          features |-> groups[5].features @@ groups[4].features
                       @@ groups[3].features @@ groups[2].features
                       @@ groups[1].features,
          history |-> _update_history(id, history)]

extract(id, history, now) ==
    merge_groups(<<_extract_temporal_features(Events[id], now),
                   _extract_network_features(Events[id]),
                   _extract_frequency_features(id, history, now),
                   content_cache[id],
                   _extract_behavioral_features(id, history)>>,
                 id, history)

feature_names ==
    <<"hour", "day_of_week", "is_weekend", "is_night",
      "src_is_private", "dst_is_private", "src_port", "dst_port", "is_common_port",
      "same_ip_frequency", "same_type_frequency", "time_since_last_similar",
      "suspicious_keyword_count", "message_length", "special_char_ratio",
      "has_ip_pattern", "has_url_pattern", "http_code", "is_http_error",
      "event_type_encoded", "is_repeated_failure", "is_rapid_succession">>

get_feature_vector(features) ==
    [k \in 1..Len(feature_names) |-> Get(features, feature_names[k], 0)]

(***************************************************************************)
(* State machine of the FeatureExtractor                                   *)
(***************************************************************************)
MaxExtractCalls == 2

\* A history the extractor holds after L completed extractions from a fresh
\* extractor: the first k of event a, the others of event b.
Prefill(L, k, a, b) == [i \in 1..L |-> IF i <= k THEN a ELSE b]
PrefillShapes ==
    {<<0, 0, 1, 1>>, <<9, 0, 1, 1>>, <<4, 2, 5, 3>>, <<19, 3, 5, 4>>,
     <<25, 5, 1, 4>>, <<100, 1, 2, 4>>, <<101, 1, 2, 4>>, <<101, 0, 1, 1>>,
     <<999, 1, 2, 1>>, <<1000, 1, 2, 8>>}

FxIdle ==
    /\ fx_event = 0
    /\ fx_features = <<>>
    /\ fx_vector = <<>>
    /\ fx_raised = FALSE
    /\ fx_before = <<>>
    /\ fx_now = Clock(2024, 1, 17, 14, 30, 0)
    /\ fx_steps = 0

\* FeatureExtractor.__init__
FxInit ==
    /\ event_history = <<>>
    /\ fx_log = <<>>
    /\ FxIdle

\* __init__ followed by the extractions of one of the PrefillShapes
FxInitPrefilled ==
    /\ \E p \in PrefillShapes : event_history = Prefill(p[1], p[2], p[3], p[4])
    /\ fx_log = event_history
    /\ FxIdle

\* the extractor and the record of the call once extract has returned r
Returned(r, id, now) ==
    /\ event_history' = r.history
    /\ fx_features' = r.features
    /\ fx_vector' = IF r.raised THEN <<>> ELSE get_feature_vector(r.features)
    /\ fx_raised' = r.raised
    /\ fx_log' = IF r.raised THEN fx_log ELSE Append(fx_log, id)
    /\ fx_event' = id
    /\ fx_before' = event_history
    /\ fx_now' = now
    /\ fx_steps' = fx_steps + 1

\* detect(): features = extract(event); get_feature_vector(features)
Extract(id, now) ==
    /\ fx_steps < MaxExtractCalls
    /\ Returned(extract(id, event_history, now), id, now)

(***************************************************************************)
(* _is_private_ip on address strings                                       *)
(***************************************************************************)
MaxOctets == 5

\* what stands between the dots: in the first two places, and in the others
HeadTokens ==
    {<<"1", "0">>, <<"1", "7", "2">>, <<"1", "9", "2">>, <<"1", "6", "8">>,
     <<"1", "6">>, <<"3", "1">>, <<"3", "2">>, <<"2", "5", "6">>, <<"x">>, <<>>}
TailTokens == {<<"1">>, <<"2", "5", "6">>, <<"x">>}

\* '.'.join(parts)
RECURSIVE Join(_)
Join(parts) ==
    IF Len(parts) = 1 THEN parts[1]
    ELSE Join(SubSeq(parts, 1, Len(parts) - 1)) \o <<".">> \o parts[Len(parts)]

IpTokenLists ==
    UNION {{p \in [1..n -> HeadTokens \cup TailTokens] :
                \A k \in 3..n : p[k] \in TailTokens} : n \in 1..MaxOctets}
IpStrings == {Join(p) : p \in IpTokenLists}

IpIdle ==
    /\ ip_arg = <<>>
    /\ ip_result = [called |-> FALSE, raised |-> FALSE, value |-> FALSE]

IpInit ==
    /\ ip_arg \in IpStrings
    /\ ip_result = [called |-> FALSE, raised |-> FALSE, value |-> FALSE]

IsPrivateIp ==
    /\ ~ip_result.called
    /\ ip_result' = [called |-> TRUE] @@ _is_private_ip(ip_arg)
    /\ UNCHANGED ip_arg

(***************************************************************************)
(* Fixed-point floats: the integer v stands for v / FxScale                *)
(***************************************************************************)
FxScale == 10 ^ 4
\* floor(a * b / FxScale) for a, b >= 0, in steps that stay below 2^31
MulFx(a, b) == (a \div FxScale) * b + ((a % FxScale) * b) \div FxScale
\* a / b rounded toward zero, b > 0
DivTrunc(a, b) == IF a >= 0 THEN a \div b ELSE 0 - ((0 - a) \div b)

\* the Taylor series of exp from term number k on, for x >= 0
RECURSIVE ExpTerms(_, _, _)
ExpTerms(x, term, k) ==
    IF term = 0 THEN 0
    ELSE term + ExpTerms(x, MulFx(term, x) \div k, k + 1)
\* the largest argument whose exponential is kept below 2^31
ExpLimit == 10 * FxScale
\* np.exp(x); beyond ExpLimit the value only matters as "huge"
ExpFx(x) ==
    IF x >= 0 THEN ExpTerms(Min(x, ExpLimit), FxScale, 1)
    ELSE (FxScale * FxScale) \div ExpTerms(Min(0 - x, ExpLimit), FxScale, 1)

\* the series 2 * (u + u^3/3 + u^5/5 + ...) from the term u^k / k on
RECURSIVE AtanhTerms(_, _, _)
AtanhTerms(power, square, k) ==
    IF power = 0 THEN 0
    ELSE (2 * power) \div k + AtanhTerms(MulFx(power, square), square, k + 2)
\* np.log(y) for FxScale <= y < 2 * FxScale
LnMantissa(y) ==
    LET u == ((y - FxScale) * FxScale) \div (y + FxScale)
    IN  AtanhTerms(u, MulFx(u, u), 1)
\* np.log(y), y > 0: y is halved or doubled into [1, 2), ln 2 = 0.6931
RECURSIVE LnFx(_)
LnFx(y) ==
    IF y >= 2 * FxScale THEN 6931 + LnFx(y \div 2)
    ELSE IF y < FxScale THEN LnFx(2 * y) - 6931
    ELSE LnMantissa(y)
\* np.clip(x, lo, hi)
Clip(x, lo, hi) == Max(lo, Min(hi, x))

(***************************************************************************)
(* anomaly_detector.py: AnomalyDetector._normalize_score                   *)
(***************************************************************************)
\* _normalize_score with the sign of the exponent lost
normalize_sign_lost(raw_score) ==
    Clip((FxScale * FxScale) \div (FxScale + ExpFx(0 - raw_score * 4)), 0, FxScale)

_normalize_score(raw_score) ==
    Clip((FxScale * FxScale) \div (FxScale + ExpFx(raw_score * 4)), 0, FxScale)

\* the raw decision values fed to _normalize_score: multiples of 0.05
MaxRawSteps == 40
RawStep == FxScale \div 20
RawScores == {k * RawStep : k \in (0 - MaxRawSteps)..MaxRawSteps}

NormIdle == norm_calls = <<>>

\* detect(): anomaly_score = self._normalize_score(raw_score); the two most
\* recent calls are kept
NormalizeScore(raw_score) ==
    norm_calls' = LastN(Append(norm_calls,
                               [raw |-> raw_score, score |-> _normalize_score(raw_score)]), 2)

(***************************************************************************)
(* mitre_mapper.py: the built-in knowledge base and the kill chain order   *)
(***************************************************************************)

\* self.db as _create_minimal_database builds it (the description column,
\* which no method reads back into a decision, is left out)
minimal_data ==
    << [technique |-> "T1110", name |-> "Brute Force",
        \* 'Credential Access'
        tactique |-> <<"C", "r", "e", "d", "e", "n", "t", "i", "a", "l", " ", "A", "c", "c", "e", "s", "s">>,
        \* 'failed password|authentication failure|invalid user|brute.?force|hydra'
        patterns |-> <<"f", "a", "i", "l", "e", "d", " ", "p", "a", "s", "s", "w", "o",
          "r", "d", "|", "a", "u", "t", "h", "e", "n", "t", "i", "c", "a", "t", "i",
          "o", "n", " ", "f", "a", "i", "l", "u", "r", "e", "|", "i", "n", "v", "a",
          "l", "i", "d", " ", "u", "s", "e", "r", "|", "b", "r", "u", "t", "e", ".",
          "?", "f", "o", "r", "c", "e", "|", "h", "y", "d", "r", "a">>],
       [technique |-> "T1110.001", name |-> "Password Guessing",
        \* 'Credential Access'
        tactique |-> <<"C", "r", "e", "d", "e", "n", "t", "i", "a", "l", " ", "A", "c", "c", "e", "s", "s">>,
        \* 'failed password|invalid password|password guess'
        patterns |-> <<"f", "a", "i", "l", "e", "d", " ", "p", "a", "s", "s", "w", "o",
          "r", "d", "|", "i", "n", "v", "a", "l", "i", "d", " ", "p", "a", "s", "s",
          "w", "o", "r", "d", "|", "p", "a", "s", "s", "w", "o", "r", "d", " ", "g",
          "u", "e", "s", "s">>],
       [technique |-> "T1110.003", name |-> "Password Spraying",
        \* 'Credential Access'
        tactique |-> <<"C", "r", "e", "d", "e", "n", "t", "i", "a", "l", " ", "A", "c", "c", "e", "s", "s">>,
        \* 'multiple failed logins|password spray|many authentication attempts'
        patterns |-> <<"m", "u", "l", "t", "i", "p", "l", "e", " ", "f", "a", "i", "l",
          "e", "d", " ", "l", "o", "g", "i", "n", "s", "|", "p", "a", "s", "s", "w",
          "o", "r", "d", " ", "s", "p", "r", "a", "y", "|", "m", "a", "n", "y", " ",
          "a", "u", "t", "h", "e", "n", "t", "i", "c", "a", "t", "i", "o", "n", " ",
          "a", "t", "t", "e", "m", "p", "t", "s">>],
       [technique |-> "T1046", name |-> "Network Service Scanning",
        \* 'Discovery'
        tactique |-> <<"D", "i", "s", "c", "o", "v", "e", "r", "y">>,
        \* 'nmap|masscan|port.?scan|service.?scan|network scan'
        patterns |-> <<"n", "m", "a", "p", "|", "m", "a", "s", "s", "c", "a", "n", "|",
          "p", "o", "r", "t", ".", "?", "s", "c", "a", "n", "|", "s", "e", "r", "v",
          "i", "c", "e", ".", "?", "s", "c", "a", "n", "|", "n", "e", "t", "w", "o",
          "r", "k", " ", "s", "c", "a", "n">>],
       [technique |-> "T1190", name |-> "Exploit Public-Facing Application",
        \* 'Initial Access'
        tactique |-> <<"I", "n", "i", "t", "i", "a", "l", " ", "A", "c", "c", "e", "s", "s">>,
        \* 'exploit|fuzzing|dirb|gobuster|nikto|sqlmap|dirbuster|wfuzz'
        patterns |-> <<"e", "x", "p", "l", "o", "i", "t", "|", "f", "u", "z", "z", "i",
          "n", "g", "|", "d", "i", "r", "b", "|", "g", "o", "b", "u", "s", "t", "e",
          "r", "|", "n", "i", "k", "t", "o", "|", "s", "q", "l", "m", "a", "p", "|",
          "d", "i", "r", "b", "u", "s", "t", "e", "r", "|", "w", "f", "u", "z", "z">>],
       [technique |-> "T1595", name |-> "Active Scanning",
        \* 'Reconnaissance'
        tactique |-> <<"R", "e", "c", "o", "n", "n", "a", "i", "s", "s", "a", "n", "c", "e">>,
        \* 'scanning|reconnaissance|probe|fingerprint'
        patterns |-> <<"s", "c", "a", "n", "n", "i", "n", "g", "|", "r", "e", "c", "o",
          "n", "n", "a", "i", "s", "s", "a", "n", "c", "e", "|", "p", "r", "o", "b",
          "e", "|", "f", "i", "n", "g", "e", "r", "p", "r", "i", "n", "t">>],
       [technique |-> "T1595.001", name |-> "Scanning IP Blocks",
        \* 'Reconnaissance'
        tactique |-> <<"R", "e", "c", "o", "n", "n", "a", "i", "s", "s", "a", "n", "c", "e">>,
        \* 'ip.?scan|subnet.?scan|network.?sweep'
        patterns |-> <<"i", "p", ".", "?", "s", "c", "a", "n", "|", "s", "u", "b", "n",
          "e", "t", ".", "?", "s", "c", "a", "n", "|", "n", "e", "t", "w", "o", "r",
          "k", ".", "?", "s", "w", "e", "e", "p">>],
       [technique |-> "T1021.004", name |-> "SSH",
        \* 'Lateral Movement'
        tactique |-> <<"L", "a", "t", "e", "r", "a", "l", " ", "M", "o", "v", "e", "m", "e", "n", "t">>,
        \* 'ssh|sshd|port 22|ssh connection'
        patterns |-> <<"s", "s", "h", "|", "s", "s", "h", "d", "|", "p", "o", "r", "t",
          " ", "2", "2", "|", "s", "s", "h", " ", "c", "o", "n", "n", "e", "c", "t",
          "i", "o", "n">>],
       [technique |-> "T1071.001", name |-> "Web Protocols",
        \* 'Command and Control'
        tactique |-> <<"C", "o", "m", "m", "a", "n", "d", " ", "a", "n", "d", " ", "C", "o", "n", "t", "r", "o", "l">>,
        \* 'http|https|web request|GET|POST'
        patterns |-> <<"h", "t", "t", "p", "|", "h", "t", "t", "p", "s", "|", "w", "e",
          "b", " ", "r", "e", "q", "u", "e", "s", "t", "|", "G", "E", "T", "|", "P",
          "O", "S", "T">>],
       [technique |-> "T1498", name |-> "Network Denial of Service",
        \* 'Impact'
        tactique |-> <<"I", "m", "p", "a", "c", "t">>,
        \* 'flood|dos|ddos|syn flood|denial of service'
        patterns |-> <<"f", "l", "o", "o", "d", "|", "d", "o", "s", "|", "d", "d", "o",
          "s", "|", "s", "y", "n", " ", "f", "l", "o", "o", "d", "|", "d", "e", "n",
          "i", "a", "l", " ", "o", "f", " ", "s", "e", "r", "v", "i", "c", "e">>],
       [technique |-> "T1078", name |-> "Valid Accounts",
        \* 'Defense Evasion'
        tactique |-> <<"D", "e", "f", "e", "n", "s", "e", " ", "E", "v", "a", "s", "i", "o", "n">>,
        \* 'successful login|authenticated|valid credentials'
        patterns |-> <<"s", "u", "c", "c", "e", "s", "s", "f", "u", "l", " ", "l", "o",
          "g", "i", "n", "|", "a", "u", "t", "h", "e", "n", "t", "i", "c", "a", "t",
          "e", "d", "|", "v", "a", "l", "i", "d", " ", "c", "r", "e", "d", "e", "n",
          "t", "i", "a", "l", "s">>],
       [technique |-> "T1133", name |-> "External Remote Services",
        \* 'Persistence'
        tactique |-> <<"P", "e", "r", "s", "i", "s", "t", "e", "n", "c", "e">>,
        \* 'remote access|vpn|remote desktop|rdp'
        patterns |-> <<"r", "e", "m", "o", "t", "e", " ", "a", "c", "c", "e", "s", "s",
          "|", "v", "p", "n", "|", "r", "e", "m", "o", "t", "e", " ", "d", "e", "s",
          "k", "t", "o", "p", "|", "r", "d", "p">>] >>

kill_chain_order ==
    << <<"R", "e", "c", "o", "n", "n", "a", "i", "s", "s", "a", "n", "c", "e">>,
       <<"R", "e", "s", "o", "u", "r", "c", "e", " ", "D", "e", "v", "e", "l", "o", "p", "m", "e", "n", "t">>,
       <<"I", "n", "i", "t", "i", "a", "l", " ", "A", "c", "c", "e", "s", "s">>,
       <<"E", "x", "e", "c", "u", "t", "i", "o", "n">>,
       <<"P", "e", "r", "s", "i", "s", "t", "e", "n", "c", "e">>,
       <<"P", "r", "i", "v", "i", "l", "e", "g", "e", " ", "E", "s", "c", "a", "l", "a", "t", "i", "o", "n">>,
       <<"D", "e", "f", "e", "n", "s", "e", " ", "E", "v", "a", "s", "i", "o", "n">>,
       <<"C", "r", "e", "d", "e", "n", "t", "i", "a", "l", " ", "A", "c", "c", "e", "s", "s">>,
       <<"D", "i", "s", "c", "o", "v", "e", "r", "y">>,
       <<"L", "a", "t", "e", "r", "a", "l", " ", "M", "o", "v", "e", "m", "e", "n", "t">>,
       <<"C", "o", "l", "l", "e", "c", "t", "i", "o", "n">>,
       <<"C", "o", "m", "m", "a", "n", "d", " ", "a", "n", "d", " ", "C", "o", "n", "t", "r", "o", "l">>,
       <<"E", "x", "f", "i", "l", "t", "r", "a", "t", "i", "o", "n">>,
       <<"I", "m", "p", "a", "c", "t">> >>

\* the phase name of an ATT&CK object
\* 'command-and-control'
PH_command_and_control ==
    <<"c", "o", "m", "m", "a", "n", "d", "-", "a", "n", "d", "-", "c", "o", "n", "t",
      "r", "o", "l">>

(***************************************************************************)
(* mitre_mapper.py: MitreMapper                                            *)
(***************************************************************************)
\* one element of a pattern at position i: a character or '.', optional
\* when a '?' follows; the knowledge bases use no other regex syntax
AtomOptional(pat, i) == i + 1 <= Len(pat) /\ pat[i + 1] = "?"
AtomAccepts(pat, i, c) ==
    IF pat[i] = "." THEN c # "\n" ELSE LowerChar(pat[i]) = LowerChar(c)
\* whether pat[i..] matches a prefix of text[j..], case ignored
RECURSIVE MatchHere(_, _, _, _)
MatchHere(pat, i, text, j) ==
    IF i > Len(pat) THEN TRUE
    ELSE IF AtomOptional(pat, i)
         THEN \/ MatchHere(pat, i + 2, text, j)
              \/ /\ j <= Len(text)
                 /\ AtomAccepts(pat, i, text[j])
                 /\ MatchHere(pat, i + 2, text, j + 1)
         ELSE /\ j <= Len(text)
              /\ AtomAccepts(pat, i, text[j])
              /\ MatchHere(pat, i + 1, text, j + 1)
\* re.search(pattern, text, re.IGNORECASE) is not None
Search(pattern, text) == \E j \in 1..(Len(text) + 1) : MatchHere(pattern, 1, text, j)

\* full_content with the message left out
content_without_message(event) ==
    <<" ">> \o Lower(Get(event, "event_type", PyStr(<<>>)).v)

\* f"{message} {event_type}", both lower-cased, absent keys read as ''
full_content(event) ==
    Lower(Get(event, "message", PyStr(<<>>)).v) \o <<" ">>
        \o Lower(Get(event, "event_type", PyStr(<<>>)).v)

\* the inner loop leaving at the first pattern that matches
matched_stops_at_first(patterns, content) ==
    LET hits == {k \in 1..Len(patterns) : Search(Strip(patterns[k]), content)}
    IN  IF hits = {} THEN <<>>
        ELSE <<Strip(patterns[CHOOSE k \in hits : \A h \in hits : k <= h])>>

\* matched_patterns after the inner loop: the stripped patterns that match,
\* in the order of the row
RECURSIVE matched_patterns(_, _)
matched_patterns(patterns, content) ==
    IF patterns = <<>> THEN <<>>
    ELSE LET pattern == Strip(Head(patterns))
         IN  (IF Search(pattern, content) THEN <<pattern>> ELSE <<>>)
                 \o matched_patterns(Tail(patterns), content)

\* technique_info of one row; confidence = min(matches_count / len(patterns), 1.0)
technique_info(row, matched, total) ==
    [technique_id |-> row.technique, technique_name |-> row.name,
     tactic |-> row.tactique,
     confidence |-> IF Len(matched) >= total THEN Ratio(1, 1)
                    ELSE Ratio(Len(matched), total),
     matched_patterns |-> matched, match_count |-> Len(matched),
     total_patterns |-> total]

\* the loop over self.db.iterrows(): one technique_info per row with a match
RECURSIVE collect_matches(_, _)
collect_matches(db, content) ==
    IF db = <<>> THEN <<>>
    ELSE LET patterns == Split(Head(db).patterns, "|")
             matched == matched_patterns(patterns, content)
         IN  (IF Len(matched) > 0
              THEN <<technique_info(Head(db), matched, Len(patterns))>>
              ELSE <<>>) \o collect_matches(Tail(db), content)

\* x['confidence'] of a is strictly greater than that of b
MoreConfident(a, b) ==
    a.confidence.num * b.confidence.den > b.confidence.num * a.confidence.den
\* a sort by confidence that puts a match before the earlier matches of the
\* same confidence
RECURSIVE insert_before_equal(_, _)
insert_before_equal(sorted, m) ==
    IF sorted = <<>> THEN <<m>>
    ELSE IF ~MoreConfident(Head(sorted), m) THEN <<m>> \o sorted
    ELSE <<Head(sorted)>> \o insert_before_equal(Tail(sorted), m)
\* matches.sort(key=lambda x: x['confidence'], reverse=True): a stable sort
RECURSIVE InsertByConfidence(_, _)
InsertByConfidence(sorted, m) ==
    IF sorted = <<>> THEN <<m>>
    ELSE IF MoreConfident(m, Head(sorted)) THEN <<m>> \o sorted
    ELSE <<Head(sorted)>> \o InsertByConfidence(Tail(sorted), m)
RECURSIVE SortByConfidence(_)
SortByConfidence(matches) ==
    IF matches = <<>> THEN <<>>
    ELSE InsertByConfidence(SortByConfidence(SubSeq(matches, 1, Len(matches) - 1)),
                            matches[Len(matches)])

\* the list map_event returns
map_event(event) == SortByConfidence(collect_matches(minimal_data, full_content(event)))
\* map_event of every event of Events, computed once
map_cache == [id \in EventIds |-> map_event(Events[id])]

\* get_kill_chain with the tactics in the order of detection
kill_chain_in_detection_order(techniques) ==
    LET RECURSIVE Distinct(_, _)
        Distinct(i, seen) ==
            IF i > Len(techniques) THEN <<>>
            ELSE IF techniques[i].tactic \in seen THEN Distinct(i + 1, seen)
            ELSE <<techniques[i].tactic>> \o Distinct(i + 1, seen \cup {techniques[i].tactic})
    IN  Distinct(1, {})

\* [tactic for tactic in kill_chain_order if tactic in detected_tactics]
get_kill_chain(techniques) ==
    LET detected_tactics == {techniques[i].tactic : i \in 1..Len(techniques)}
    IN  SelectSeq(kill_chain_order, LAMBDA tactic : tactic \in detected_tactics)

(***************************************************************************)
(* mitre_db_loader.py: the tactic names of a generated knowledge base      *)
(***************************************************************************)
UpperChar(c) ==
    IF c \in LowerLetters THEN CHOOSE u \in UpperLetters : LowerOf[u] = c ELSE c
IsAlpha(c) == c \in LowerLetters \cup UpperLetters
\* s.replace(old, new) for single characters
ReplaceChar(s, old, new) == [i \in 1..Len(s) |-> IF s[i] = old THEN new ELSE s[i]]
\* s.title(): a letter is upper-cased after a non-letter, lower-cased after a letter
Title(s) ==
    [i \in 1..Len(s) |->
        IF i > 1 /\ IsAlpha(s[i - 1]) THEN LowerChar(s[i]) ELSE UpperChar(s[i])]
\* the 'tactique' values create_mitre_db gives a technique with these phases
loader_tactics(kill_chain) ==
    IF kill_chain = <<>> THEN <<<<"U", "n", "k", "n", "o", "w", "n">>>>
    ELSE [i \in 1..Len(kill_chain) |-> Title(ReplaceChar(kill_chain[i], "-", " "))]
\* the rows create_mitre_db makes of one attack-pattern object
loader_rows(technique_id, name, kill_chain, patterns) ==
    [i \in 1..Len(loader_tactics(kill_chain)) |->
        [technique |-> technique_id, name |-> name,
         tactique |-> loader_tactics(kill_chain)[i], patterns |-> patterns]]

(***************************************************************************)
(* The mapper as a state machine                                           *)
(***************************************************************************)
\* map_event() calls made on one mapper
MaxMapCalls == 2
\* the longest list of matches handed to get_kill_chain
MaxKcLen == 2

\* matches a caller can hand to get_kill_chain: those of the built-in rows
\* and those of rows made by mitre_db_loader
KcRows ==
    <<minimal_data[1], minimal_data[4]>>
        \o loader_rows("T1071", "Application Layer Protocol",
                       <<PH_command_and_control>>, minimal_data[9].patterns)
        \o loader_rows("T1200", "Hardware Additions", <<>>, minimal_data[6].patterns)
KcMatches ==
    {technique_info(KcRows[i], <<Split(KcRows[i].patterns, "|")[1]>>,
                    Len(Split(KcRows[i].patterns, "|"))) : i \in 1..Len(KcRows)}
RECURSIVE SeqsUpTo(_, _)
SeqsUpTo(S, n) ==
    IF n = 0 THEN {<<>>}
    ELSE LET shorter == SeqsUpTo(S, n - 1)
         IN  shorter \cup {Append(s, x) : s \in shorter, x \in S}
KcInputs == {map_cache[id] : id \in EventIds} \cup SeqsUpTo(KcMatches, MaxKcLen)

\* MitreMapper.__init__
MapIdle ==
    /\ statistics = [total_mappings |-> 0, techniques_detected |-> {},
                     tactics_detected |-> {}]
    /\ map_arg = 0
    /\ map_result = <<>>
    /\ kc_arg = <<>>
    /\ kc_result = <<>>
    /\ map_steps = 0
    /\ map_log = <<>>
    /\ mx_arg = <<>>
    /\ mx_result = [called |-> FALSE, rows |-> {}]
MapInit == MapIdle

\* mapper.map_event(Events[id])
MapEvent(id) ==
    /\ map_steps < MaxMapCalls
    /\ LET matches == map_cache[id]
       IN  /\ map_arg' = id
           /\ map_result' = matches
           /\ statistics' =
                [total_mappings |-> statistics.total_mappings + Len(matches),
                 techniques_detected |-> statistics.techniques_detected
                     \cup {matches[i].technique_id : i \in 1..Len(matches)},
                 tactics_detected |-> statistics.tactics_detected
                     \cup {matches[i].tactic : i \in 1..Len(matches)}]
    /\ map_steps' = map_steps + 1
    /\ map_log' = Append(map_log, map_cache[id])
    /\ UNCHANGED <<kc_arg, kc_result, mx_arg, mx_result>>

\* mapper.get_kill_chain(techniques)
GetKillChain(techniques) ==
    /\ kc_arg' = techniques
    /\ kc_result' = get_kill_chain(techniques)
    /\ UNCHANGED <<statistics, map_arg, map_result, map_steps, map_log, mx_arg, mx_result>>

\* create_mitre_matrix without the calls of map_event counted
matrix_leaves_statistics(stats, ids) == stats
\* self.statistics after map_event has run on each event of ids in turn
RECURSIVE StatisticsAfter(_, _)
StatisticsAfter(stats, ids) ==
    IF ids = <<>> THEN stats
    ELSE StatisticsAfter(
             [total_mappings |-> stats.total_mappings + Len(map_cache[Head(ids)]),
              techniques_detected |-> stats.techniques_detected
                  \cup {map_cache[Head(ids)][i].technique_id
                            : i \in 1..Len(map_cache[Head(ids)])},
              tactics_detected |-> stats.tactics_detected
                  \cup {map_cache[Head(ids)][i].tactic
                            : i \in 1..Len(map_cache[Head(ids)])}],
             Tail(ids))
\* the matches the calls of map_event return for the events of ids, in order
RECURSIVE MatrixMatches(_)
MatrixMatches(ids) ==
    IF ids = <<>> THEN <<>> ELSE map_cache[Head(ids)] \o MatrixMatches(Tail(ids))
\* sum(stats['confidences']) of the matches of one technique, as a fraction
RECURSIVE SumConfidences(_, _)
SumConfidences(matches, tech_id) ==
    IF matches = <<>> THEN Ratio(0, 1)
    ELSE IF Head(matches).technique_id # tech_id
    THEN SumConfidences(Tail(matches), tech_id)
    ELSE Ratio(Head(matches).confidence.num * SumConfidences(Tail(matches), tech_id).den
                   + SumConfidences(Tail(matches), tech_id).num
                         * Head(matches).confidence.den,
               Head(matches).confidence.den * SumConfidences(Tail(matches), tech_id).den)
\* the rows of the DataFrame create_mitre_matrix returns; rows of equal
\* occurrences come in the order sort_values leaves them, so the rows are a set
create_mitre_matrix(ids) ==
    {[technique |-> MatrixMatches(ids)[k].technique_id,
      name |-> MatrixMatches(ids)[k].technique_name,
      tactic |-> MatrixMatches(ids)[k].tactic,
      occurrences |->
          Cardinality({j \in 1..Len(MatrixMatches(ids)) :
                          MatrixMatches(ids)[j].technique_id
                              = MatrixMatches(ids)[k].technique_id}),
      avg_confidence |->
          Ratio(SumConfidences(MatrixMatches(ids), MatrixMatches(ids)[k].technique_id).num,
                SumConfidences(MatrixMatches(ids), MatrixMatches(ids)[k].technique_id).den
                    * Cardinality({j \in 1..Len(MatrixMatches(ids)) :
                                      MatrixMatches(ids)[j].technique_id
                                          = MatrixMatches(ids)[k].technique_id}))]
        : k \in 1..Len(MatrixMatches(ids))}

\* the event lists handed to create_mitre_matrix, as ids of Events: no event,
\* an event with a match and one without, and a list in which an event comes
\* twice
MatrixInputs == {<<>>, <<3, 6>>, <<9, 1, 9>>}

\* mapper.create_mitre_matrix([Events[id] for id in ids])
CreateMitreMatrix(ids) ==
    /\ map_steps < MaxMapCalls
    /\ map_steps' = map_steps + 1
    /\ mx_arg' = ids
    /\ mx_result' = [called |-> TRUE, rows |-> create_mitre_matrix(ids)]
    /\ statistics' = StatisticsAfter(statistics, ids)
    /\ map_log' = map_log \o [k \in 1..Len(ids) |-> map_cache[ids[k]]]
    /\ map_arg' = IF ids = <<>> THEN map_arg ELSE ids[Len(ids)]
    /\ map_result' = IF ids = <<>> THEN map_result ELSE map_cache[ids[Len(ids)]]
    /\ UNCHANGED <<kc_arg, kc_result>>

(***************************************************************************)
(* trust_agent.py: TrustAgent                                              *)
(* temperature is held in tenths, scores and the threshold in fixed point  *)
(***************************************************************************)
\* np.log(raw_score / (1 - raw_score)) at the clipped ends: ln(1e10) = 23.0259
EpsilonLogit == 23 * FxScale + 259
\* the logarithm of the score taken in place of that of its odds
logit_without_odds(raw_score) ==
    IF raw_score <= 0 THEN 0 - EpsilonLogit
    ELSE IF raw_score >= FxScale THEN EpsilonLogit
    ELSE LnFx(raw_score)

\* logit of a score, the score clipped to [epsilon, 1 - epsilon] first
Logit(raw_score) ==
    IF raw_score <= 0 THEN 0 - EpsilonLogit
    ELSE IF raw_score >= FxScale THEN EpsilonLogit
    ELSE LnFx((raw_score * FxScale) \div (FxScale - raw_score))

\* 1 / (1 + np.exp(-scaled_logit)), clipped to [0, 1]
Sigmoid(scaled_logit) ==
    Clip((FxScale * FxScale) \div (FxScale + ExpFx(0 - scaled_logit)), 0, FxScale)

\* _apply_temperature_scaling with the sign of the scaled logit lost
scaling_sign_lost(raw_score, T) == Sigmoid(0 - DivTrunc(Logit(raw_score) * 10, T))

_apply_temperature_scaling(raw_score, T) == Sigmoid(DivTrunc(Logit(raw_score) * 10, T))

(***************************************************************************)
(* _apply_temperature_scaling on scores the fixed point cannot hold: a     *)
(* score is Fx(v), the fixed-point value v, or Low(e), the float 10^-e, or *)
(* High(e), the float 1 - 10^-e, e a fixed-point number of decimal digits  *)
(***************************************************************************)
Fx(v) == [kind |-> "fx", v |-> v]
Low(e) == [kind |-> "low", e |-> e]
High(e) == [kind |-> "high", e |-> e]
\* epsilon = 1e-10 as a number of decimal digits
EpsilonDigits == 10 * FxScale
\* the largest |logit| of a score the fixed point tells from 0 and 1:
\* ln(0.9999 / 0.0001)
GridLogit == 9 * FxScale + 2102
\* log10(e)
Log10E == (10 * FxScale * FxScale) \div EpsilonLogit
\* 1 + 10^-e is 1.0 in a double from these many digits on: -log10(2^-53)
DoubleDigits == 15 * FxScale + 9546
\* np.log(raw_score / (1 - raw_score)) after np.clip(raw_score, epsilon,
\* 1 - epsilon); ln(10^-e / (1 - 10^-e)) is -e ln 10 to the fifth decimal
WideLogit(raw_score) ==
    IF raw_score.kind = "fx" THEN Logit(raw_score.v)
    ELSE IF raw_score.kind = "low"
         THEN 0 - MulFx(Min(raw_score.e, EpsilonDigits), EpsilonLogit) \div 10
         ELSE MulFx(Min(raw_score.e, EpsilonDigits), EpsilonLogit) \div 10
\* 1 / (1 + np.exp(-scaled_logit)): exp(scaled_logit) below the grid,
\* 1 - exp(-scaled_logit) above it, and 1.0 once the double cannot hold the
\* difference
WideSigmoid(scaled_logit) ==
    IF Abs(scaled_logit) <= GridLogit THEN Fx(Sigmoid(scaled_logit))
    ELSE IF scaled_logit < 0 THEN Low(MulFx(0 - scaled_logit, Log10E))
    ELSE IF MulFx(scaled_logit, Log10E) >= DoubleDigits THEN Fx(FxScale)
    ELSE High(MulFx(scaled_logit, Log10E))
\* _apply_temperature_scaling multiplying the logit by the temperature
scaling_multiplies_logit(raw_score, T) ==
    WideSigmoid(DivTrunc(WideLogit(raw_score) * T, 10))

_apply_temperature_scaling_wide(raw_score, T) ==
    WideSigmoid(DivTrunc(WideLogit(raw_score) * 10, T))

\* the weights 'llm', 'anomaly', 'heuristic', in tenths
weights == [llm |-> 4, anomaly |-> 4, heuristic |-> 2]

\* calibrate_decision alerting only strictly above the threshold
alert_strictly_above(llm_confidence, anomaly_score, heuristic_score, T, thr) ==
    LET raw_score == (weights.llm * llm_confidence + weights.anomaly * anomaly_score
                          + weights.heuristic * heuristic_score) \div 10
        calibrated_score == _apply_temperature_scaling(raw_score, T)
    IN  [raw_score |-> raw_score,
         calibrated_score |-> calibrated_score,
         should_alert |-> calibrated_score > thr,
         decision_confidence |-> Clip(2 * Abs(calibrated_score - thr), 0, FxScale),
         sources |-> [llm_confidence |-> llm_confidence,
                      anomaly_score |-> anomaly_score,
                      heuristic_score |-> heuristic_score],
         weights |-> weights,
         temperature |-> T,
         threshold |-> thr]

\* the analysis dict calibrate_decision returns; calibrated_score is its
\* 'calibrated_score' entry
calibrate_decision(llm_confidence, anomaly_score, heuristic_score, T, thr) ==
    LET raw_score == (weights.llm * llm_confidence + weights.anomaly * anomaly_score
                          + weights.heuristic * heuristic_score) \div 10
        calibrated_score == _apply_temperature_scaling(raw_score, T)
    IN  [raw_score |-> raw_score,
         calibrated_score |-> calibrated_score,
         should_alert |-> calibrated_score >= thr,
         decision_confidence |-> Clip(2 * Abs(calibrated_score - thr), 0, FxScale),
         sources |-> [llm_confidence |-> llm_confidence,
                      anomaly_score |-> anomaly_score,
                      heuristic_score |-> heuristic_score],
         weights |-> weights,
         temperature |-> T,
         threshold |-> thr]

\* the temperatures and thresholds an agent is constructed with: the defaults
\* 1.5 and 0.7 among them
Temperatures == {5, 10, 15, 30}
Thresholds == {FxScale \div 2, 7 * (FxScale \div 10)}
\* the temperatures _apply_temperature_scaling is explored under
ScaleTemperatures == {5, 9, 10, 11, 15, 30}
\* the raw scores it is explored on: the grid, its ends and middle, and floats
\* of (0, 1) on both sides of the epsilon clip
ScaleInputs ==
    {Fx(v) : v \in {0, 1, 100, 2000, 4000, 4900, 4999, 5000, 5001, 5100, 6000,
                    8000, 9000, 9900, 9999, FxScale}}
        \cup {Low(e * FxScale) : e \in {5, 8, 10, 12, 30}}
        \cup {High(e * FxScale) : e \in {5, 8, 10, 12, 15}}
\* the confidences and scores callers pass, those of the first test scenario
\* included
ScoreGrid ==
    {k * (FxScale \div 20) : k \in {0, 4, 10, 16, 18, 19, 20}}

\* no call on the buffer yet
NoCall == [op |-> "none"]

TrustIdle ==
    /\ temperature = 15
    /\ threshold = 7 * (FxScale \div 10)
    /\ calibration_data = <<>>
    /\ td_args = <<>>
    /\ td_analysis = <<>>
    /\ sc_arg = <<>>
    /\ sc_result = <<>>
    /\ ta_call = NoCall
    /\ ta_steps = 0

\* TrustAgent(temperature, threshold)
TrustInit ==
    /\ temperature \in Temperatures
    /\ threshold \in Thresholds
    /\ calibration_data = <<>>
    /\ td_args = <<>>
    /\ td_analysis = <<>>
    /\ sc_arg = <<>>
    /\ sc_result = <<>>
    /\ ta_call = NoCall
    /\ ta_steps = 0

\* agent.calibrate_decision(llm_confidence, anomaly_score, heuristic_score)
CalibrateDecision(llm_confidence, anomaly_score, heuristic_score) ==
    /\ td_args' = <<llm_confidence, anomaly_score, heuristic_score>>
    /\ td_analysis' = calibrate_decision(llm_confidence, anomaly_score, heuristic_score,
                                         temperature, threshold)
    /\ UNCHANGED <<temperature, threshold, calibration_data, sc_arg, sc_result,
                   ta_call, ta_steps>>

\* TrustAgent(temperature)
ScaleInit ==
    /\ temperature \in ScaleTemperatures
    /\ threshold = 7 * (FxScale \div 10)
    /\ calibration_data = <<>>
    /\ td_args = <<>>
    /\ td_analysis = <<>>
    /\ sc_arg = <<>>
    /\ sc_result = <<>>
    /\ ta_call = NoCall
    /\ ta_steps = 0

\* agent._apply_temperature_scaling(raw_score)
ApplyTemperatureScaling(raw_score) ==
    /\ sc_arg' = raw_score
    /\ sc_result' = _apply_temperature_scaling_wide(raw_score, temperature)
    /\ UNCHANGED <<temperature, threshold, calibration_data, td_args, td_analysis,
                   ta_call, ta_steps>>

(***************************************************************************)
(* trust_agent.py: the calibration buffer                                  *)
(***************************************************************************)
max_calibration_samples == 100
\* compute_calibration_metrics wants this many samples, optimize_temperature
\* this many
MetricsMin == 10
OptimizeMin == 20

\* the dict add_calibration_sample builds, event_data left out
Sample(prediction, ground_truth) ==
    [prediction |-> prediction, ground_truth |-> ground_truth, timestamp |-> PyNone]

\* add_calibration_sample cutting the buffer to its first 100 samples
add_sample_keeps_oldest(data, prediction, ground_truth) ==
    SubSeq(Append(data, Sample(prediction, ground_truth)), 1,
           Min(Len(data) + 1, max_calibration_samples))

\* self.calibration_data after add_calibration_sample(prediction, ground_truth)
add_calibration_sample(data, prediction, ground_truth) ==
    LastN(Append(data, Sample(prediction, ground_truth)), max_calibration_samples)

\* np.sum of the entries lo..hi of a list of numbers, and of its first n
RECURSIVE SumRange(_, _, _)
SumRange(xs, lo, hi) ==
    IF lo > hi THEN 0
    ELSE IF lo = hi THEN xs[lo]
    ELSE SumRange(xs, lo, (lo + hi) \div 2) + SumRange(xs, (lo + hi) \div 2 + 1, hi)
SumTo(xs, n) == SumRange(xs, 1, n)
\* np.mean((predictions - ground_truths) ** 2)
BrierScore(predictions, ground_truths) ==
    SumTo([k \in 1..Len(predictions) |->
              ((predictions[k] - ground_truths[k] * FxScale)
                  * (predictions[k] - ground_truths[k] * FxScale)) \div FxScale],
          Len(predictions)) \div Len(predictions)

n_bins == 10
\* prediction >= bin_boundaries[i] for bin_boundaries = np.linspace(0, 1, 11),
\* whose entries 3, 6 and 7 are the doubles just above 0.3, 0.6 and 0.7
AtLeastBoundary(prediction, i) ==
    IF i \in {3, 6, 7} THEN prediction > i * (FxScale \div n_bins)
    ELSE prediction >= i * (FxScale \div n_bins)
\* the indices of the samples of bin i: in_bin
InBin(predictions, i) ==
    {k \in 1..Len(predictions) :
        AtLeastBoundary(predictions[k], i) /\ ~AtLeastBoundary(predictions[k], i + 1)}
\* bin_weight * abs(avg_confidence - avg_accuracy) of a non-empty bin
BinTerm(predictions, ground_truths, in_bin) ==
    (Cardinality(in_bin)
        * Abs(SumTo([k \in 1..Len(predictions) |->
                        IF k \in in_bin THEN predictions[k] ELSE 0],
                    Len(predictions)) \div Cardinality(in_bin)
              - (SumTo([k \in 1..Len(predictions) |->
                           IF k \in in_bin THEN ground_truths[k] ELSE 0],
                       Len(predictions)) * FxScale) \div Cardinality(in_bin)))
        \div Len(predictions)
\* the ECE without the bin that holds 1.0
ece_over_nine_bins(predictions, ground_truths) ==
    SumTo([i \in 1..(n_bins - 1) |->
              IF InBin(predictions, i - 1) = {} THEN 0
              ELSE BinTerm(predictions, ground_truths, InBin(predictions, i - 1))],
          n_bins - 1)
_compute_ece(predictions, ground_truths) ==
    SumTo([i \in 1..n_bins |->
              IF InBin(predictions, i - 1) = {} THEN 0
              ELSE BinTerm(predictions, ground_truths, InBin(predictions, i - 1))],
          n_bins)

\* tp, fp, tn, fn of binary_predictions = (predictions >= threshold)
ConfusionMatrix(predictions, ground_truths, thr) ==
    [tp |-> Cardinality({k \in 1..Len(predictions) :
                            predictions[k] >= thr /\ ground_truths[k] = 1}),
     fp |-> Cardinality({k \in 1..Len(predictions) :
                            predictions[k] >= thr /\ ground_truths[k] = 0}),
     tn |-> Cardinality({k \in 1..Len(predictions) :
                            predictions[k] < thr /\ ground_truths[k] = 0}),
     fn |-> Cardinality({k \in 1..Len(predictions) :
                            predictions[k] < thr /\ ground_truths[k] = 1})]
\* a / b if b > 0 else 0
RatioOrZero(a, b) == IF b > 0 THEN (a * FxScale) \div b ELSE 0
\* the metrics dict from the confusion counts
DerivedMetrics(predictions, ground_truths, cm, precision, recall) ==
    [brier_score |-> BrierScore(predictions, ground_truths),
     ece |-> _compute_ece(predictions, ground_truths),
     accuracy |-> ((cm.tp + cm.tn) * FxScale) \div Len(predictions),
     precision |-> precision,
     recall |-> recall,
     f1_score |-> IF precision + recall > 0
                  THEN (2 * MulFx(precision, recall) * FxScale) \div (precision + recall)
                  ELSE 0,
     confusion_matrix |-> cm,
     total_samples |-> Len(predictions)]
MetricsOf(predictions, ground_truths, cm) ==
    DerivedMetrics(predictions, ground_truths, cm,
                   RatioOrZero(cm.tp, cm.tp + cm.fp), RatioOrZero(cm.tp, cm.tp + cm.fn))

\* compute_calibration_metrics computing whatever the number of samples
metrics_without_minimum(data, thr) ==
    IF Len(data) = 0
    THEN [error |-> "Not enough calibration samples", samples |-> Len(data)]
    ELSE MetricsOf([k \in 1..Len(data) |-> data[k].prediction],
                   [k \in 1..Len(data) |-> data[k].ground_truth],
                   ConfusionMatrix([k \in 1..Len(data) |-> data[k].prediction],
                                   [k \in 1..Len(data) |-> data[k].ground_truth], thr))

\* the dict compute_calibration_metrics returns
compute_calibration_metrics(data, thr) ==
    IF Len(data) < MetricsMin
    THEN [error |-> "Not enough calibration samples", samples |-> Len(data)]
    ELSE MetricsOf([k \in 1..Len(data) |-> data[k].prediction],
                   [k \in 1..Len(data) |-> data[k].ground_truth],
                   ConfusionMatrix([k \in 1..Len(data) |-> data[k].prediction],
                                   [k \in 1..Len(data) |-> data[k].ground_truth], thr))

\* np.linspace(0.5, 3.0, 26), in tenths
TemperatureGrid == 5..30
\* the predictions samples carry
SamplePredictions ==
    {0, 3 * (FxScale \div 10), FxScale \div 2, 17 * (FxScale \div 20), FxScale}
\* a prediction recalibrated with a temperature of the grid
scale_cache ==
    [temp \in TemperatureGrid |->
        [pred \in SamplePredictions |-> _apply_temperature_scaling(pred, temp)]]
\* brier of the loop body of optimize_temperature
BrierAt(data, temp) ==
    BrierScore([k \in 1..Len(data) |-> scale_cache[temp][data[k].prediction]],
               [k \in 1..Len(data) |-> data[k].ground_truth])
\* float('inf')
BrierInf == FxScale * FxScale
\* the grid search from temp on: best_temp when the loop ends
RECURSIVE GridSearch(_, _, _, _)
GridSearchStep(data, temp, best_temp, best_brier, brier) ==
    IF brier < best_brier THEN GridSearch(data, temp + 1, temp, brier)
    ELSE GridSearch(data, temp + 1, best_temp, best_brier)
GridSearch(data, temp, best_temp, best_brier) ==
    IF temp \notin TemperatureGrid THEN best_temp
    ELSE GridSearchStep(data, temp, best_temp, best_brier, BrierAt(data, temp))

\* optimize_temperature keeping the last of the best temperatures
RECURSIVE GridSearchLast(_, _, _, _)
GridSearchLastStep(data, temp, best_temp, best_brier, brier) ==
    IF brier <= best_brier THEN GridSearchLast(data, temp + 1, temp, brier)
    ELSE GridSearchLast(data, temp + 1, best_temp, best_brier)
GridSearchLast(data, temp, best_temp, best_brier) ==
    IF temp \notin TemperatureGrid THEN best_temp
    ELSE GridSearchLastStep(data, temp, best_temp, best_brier, BrierAt(data, temp))
optimize_keeps_last_best(data, T) ==
    IF Len(data) < OptimizeMin THEN T ELSE GridSearchLast(data, 5, T, BrierInf)

\* the temperature optimize_temperature returns, and leaves in self.temperature
optimize_temperature(data, T) ==
    IF Len(data) < OptimizeMin THEN T ELSE GridSearch(data, 5, T, BrierInf)

\* a buffer of n samples as n calls of add_calibration_sample leave it
BufferOf(n) ==
    [k \in 1..n |->
        Sample(IF k % 3 = 0 THEN 3 * (FxScale \div 10)
               ELSE IF k % 3 = 1 THEN 17 * (FxScale \div 20) ELSE FxScale,
               IF k % 5 \in {1, 2} THEN 1 ELSE 0)]
\* the files load_calibration_data finds: none, or the JSON of a
\* save_calibration_data, whose keys are all optional to the reader
MaxFileSamples == 101
NoFile == [found |-> FALSE]
CalibrationFiles ==
    {NoFile,
     [found |-> TRUE, data |-> [temperature |-> 20, threshold |-> FxScale \div 2,
                                samples |-> BufferOf(12)]],
     [found |-> TRUE, data |-> [samples |-> BufferOf(MaxFileSamples)]],
     [found |-> TRUE,
      data |-> [samples |-> [k \in 1..OptimizeMin |-> Sample(FxScale \div 2, k % 2)]]],
     [found |-> TRUE, data |-> [temperature |-> 10]]}
\* temperature, threshold and calibration_data after load_calibration_data
load_calibration_data(file, T, thr, data) ==
    IF ~file.found THEN [temperature |-> T, threshold |-> thr, calibration_data |-> data]
    ELSE [temperature |-> Get(file.data, "temperature", T),
          threshold |-> Get(file.data, "threshold", thr),
          calibration_data |-> Get(file.data, "samples", <<>>)]

\* calls on the buffer made on one agent
MaxBufferCalls == 2
\* the lengths the buffer has when the exploration starts
StartLengths == {0, MetricsMin - 1, OptimizeMin - 1, max_calibration_samples - 1}
\* TrustAgent() after that many add_calibration_sample calls
CalibInit ==
    /\ temperature = 15
    /\ threshold = 7 * (FxScale \div 10)
    /\ calibration_data \in {BufferOf(n) : n \in StartLengths}
    /\ td_args = <<>>
    /\ td_analysis = <<>>
    /\ sc_arg = <<>>
    /\ sc_result = <<>>
    /\ ta_call = NoCall
    /\ ta_steps = 0

\* what a call finds: the fields it may change
Before == [temperature |-> temperature, threshold |-> threshold,
           calibration_data |-> calibration_data]

\* agent.add_calibration_sample(prediction, ground_truth)
AddCalibrationSample(prediction, ground_truth) ==
    /\ ta_steps < MaxBufferCalls
    /\ calibration_data' = add_calibration_sample(calibration_data, prediction,
                                                  ground_truth)
    /\ ta_call' = [op |-> "add_calibration_sample",
                   args |-> <<prediction, ground_truth>>, before |-> Before]
    /\ ta_steps' = ta_steps + 1
    /\ UNCHANGED <<temperature, threshold, td_args, td_analysis, sc_arg, sc_result>>

\* agent.compute_calibration_metrics()
ComputeCalibrationMetrics ==
    /\ ta_steps < MaxBufferCalls
    /\ ta_call' = [op |-> "compute_calibration_metrics", before |-> Before,
                   result |-> compute_calibration_metrics(calibration_data, threshold)]
    /\ ta_steps' = ta_steps + 1
    /\ UNCHANGED <<temperature, threshold, calibration_data, td_args, td_analysis,
                   sc_arg, sc_result>>

\* agent.optimize_temperature()
OptimizeTemperature ==
    /\ ta_steps < MaxBufferCalls
    /\ temperature' = optimize_temperature(calibration_data, temperature)
    /\ ta_call' = [op |-> "optimize_temperature", before |-> Before,
                   result |-> optimize_temperature(calibration_data, temperature)]
    /\ ta_steps' = ta_steps + 1
    /\ UNCHANGED <<threshold, calibration_data, td_args, td_analysis, sc_arg, sc_result>>

\* agent.load_calibration_data(filepath), file what the path holds
Loaded(after, before) ==
    /\ temperature' = after.temperature
    /\ threshold' = after.threshold
    /\ calibration_data' = after.calibration_data
    /\ ta_call' = [op |-> "load_calibration_data", before |-> before]
LoadCalibrationData(file) ==
    /\ ta_steps < MaxBufferCalls
    /\ Loaded(load_calibration_data(file, temperature, threshold, calibration_data),
              Before)
    /\ ta_steps' = ta_steps + 1
    /\ UNCHANGED <<td_args, td_analysis, sc_arg, sc_result>>

(***************************************************************************)
(* lm_client.py: LMClient                                                  *)
(* what requests.post brings back is an input: [kind |-> "timeout"] and    *)
(* [kind |-> "connection"] when it raises, else an answer with its status  *)
(* and its JSON body: [kind |-> "ok", status, content, logprobs            *)
(* (optional)] a body with choices, [kind |-> "nochoices", status] a body  *)
(* without.                                                                *)
(***************************************************************************)
\* s.upper()
Upper(s) == [i \in 1..Len(s) |-> UpperChar(s[i])]
certainty_words ==
    {<<"c", "e", "r", "t", "a", "i", "n", "e", "m", "e", "n", "t">>,
     <<"c", "l", "a", "i", "r", "e", "m", "e", "n", "t">>,
     <<"é", "v", "i", "d", "e", "m", "m", "e", "n", "t">>,
     <<"d", "e", "f", "i", "n", "i", "t", "e", "l", "y">>,
     <<"c", "l", "e", "a", "r", "l", "y">>,
     <<"o", "b", "v", "i", "o", "u", "s", "l", "y">>}
uncertainty_words ==
    {<<"p", "e", "u", "t", "-", "ê", "t", "r", "e">>,
     <<"p", "o", "s", "s", "i", "b", "l", "e", "m", "e", "n", "t">>,
     <<"p", "r", "o", "b", "a", "b", "l", "e", "m", "e", "n", "t">>,
     <<"m", "a", "y", "b", "e">>,
     <<"p", "o", "s", "s", "i", "b", "l", "y">>,
     <<"p", "r", "o", "b", "a", "b", "l", "y">>}
\* response.raise_for_status() raises HTTPError: the status is 4xx or 5xx
RaisesForStatus(http) ==
    "status" \in DOMAIN http /\ http.status >= 400 /\ http.status < 600
\* str(e) of the exception the exchange ends in
ExceptionText(http) ==
    IF http.kind = "timeout" THEN <<"R", "e", "a", "d", " ", "t", "i", "m", "e", "d",
                                   " ", "o", "u", "t", ".">>
    ELSE IF http.kind = "connection"
         THEN <<"C", "o", "n", "n", "e", "c", "t", "i", "o", "n", " ", "r", "e", "f",
              "u", "s", "e", "d">>
    ELSE IF RaisesForStatus(http)
         THEN <<"5", "0", "0", " ", "S", "e", "r", "v", "e", "r", " ", "E", "r", "r",
              "o", "r">>
    ELSE <<"'", "c", "h", "o", "i", "c", "e", "s", "'">>
\* the confidence of a 2xx answer: exp of the mean log probability when the
\* answer carries token_logprobs, 0.5 when that fails, else the heuristic on
\* the length and the wording of the content
_extract_confidence(http) ==
    IF "logprobs" \in DOMAIN http /\ http.logprobs # <<>>
    THEN Clip(ExpFx(DivTrunc(SumTo(http.logprobs, Len(http.logprobs)),
                             Len(http.logprobs))), 0, FxScale)
    ELSE Clip(6 * (FxScale \div 10)
                + (3 * (FxScale \div 10) * Min(Len(http.content), 200)) \div 200
                + (IF \E word \in certainty_words : Contains(Lower(http.content), word)
                   THEN FxScale \div 10 ELSE 0)
                - (IF \E word \in uncertainty_words : Contains(Lower(http.content), word)
                   THEN 15 * (FxScale \div 100) ELSE 0),
              0, FxScale)

\* query answering a failed exchange with the confidence of an empty answer
query_error_keeps_confidence(http) ==
    IF http.kind = "ok" /\ ~RaisesForStatus(http)
    THEN [raised |-> FALSE,
          value |-> [response |-> Strip(http.content),
                     confidence |-> _extract_confidence(http), raw |-> http]]
    ELSE IF http.kind = "nochoices" /\ ~RaisesForStatus(http)
         THEN [raised |-> TRUE, text |-> ExceptionText(http)]
    ELSE [raised |-> FALSE,
          value |-> [response |-> <<"E", "r", "r", "e", "u", "r", " ", "L", "L", "M", ":", " ">> \o ExceptionText(http),
                     confidence |-> 6 * (FxScale \div 10),
                     error |-> ExceptionText(http)]]

\* LMClient.query: the dict it returns, or the exception that leaves it
query(http) ==
    IF http.kind = "ok" /\ ~RaisesForStatus(http)
    THEN [raised |-> FALSE,
          value |-> [response |-> Strip(http.content),
                     confidence |-> _extract_confidence(http), raw |-> http]]
    ELSE IF http.kind = "nochoices" /\ ~RaisesForStatus(http)
         THEN [raised |-> TRUE, text |-> ExceptionText(http)]
    ELSE [raised |-> FALSE,
          value |-> [response |-> <<"E", "r", "r", "e", "u", "r", " ", "L", "L", "M", ":", " ">> \o ExceptionText(http),
                     confidence |-> 0,
                     error |-> ExceptionText(http)]]

\* LMClient.analyze_security_event, result the outcome of its query
Analyzed(result) ==
    IF result.raised THEN result
    ELSE [raised |-> FALSE,
          value |-> [is_malicious |->
                         \/ Contains(Upper(result.value.response),
                                     <<"M", "A", "L", "V", "E", "I", "L", "L", "A", "N", "T">>)
                         \/ Contains(Upper(result.value.response),
                                     <<"M", "A", "L", "I", "C", "I", "O", "U", "S">>),
                     confidence |-> result.value.confidence,
                     explanation |-> result.value.response,
                     raw |-> Get(result.value, "raw", PyNone)]]
analyze_security_event(http) == Analyzed(query(http))

\* the answers of the LLM the model feeds to the client
R_malicious ==
    <<"[", "M", "A", "L", "V", "E", "I", "L", "L", "A", "N", "T", "]", " ", "C", "l",
    "e", "a", "r", "l", "y", " ", "a", " ", "b", "r", "u", "t", "e", " ", "f", "o",
    "r", "c", "e", " ", "a", "t", "t", "e", "m", "p", "t", ".", " ">>
R_normal ==
    <<"[", "N", "O", "R", "M", "A", "L", "]", " ", "p", "r", "o", "b", "a", "b", "l",
    "y", " ", "r", "o", "u", "t", "i", "n", "e", " ", "t", "r", "a", "f", "f", "i",
    "c">>
\* the exchanges that end in a requests exception: no answer in time, no
\* connection, an answer of status 500
HttpFailures ==
    {[kind |-> "timeout"], [kind |-> "connection"], [kind |-> "nochoices", status |-> 500]}
\* those, two answers with choices, and answers whose JSON body has no
\* 'choices': one of status 200 and one of status 304
HttpExchanges ==
    {[kind |-> "ok", status |-> 200, content |-> R_malicious],
     [kind |-> "ok", status |-> 200, content |-> R_normal,
      logprobs |-> <<0 - 1000, 0 - 3000>>],
     [kind |-> "nochoices", status |-> 200],
     [kind |-> "nochoices", status |-> 304]} \cup HttpFailures

(***************************************************************************)
(* xai_explainer.py: XAIExplainer                                          *)
(***************************************************************************)
\* the threat level taken from the trust score alone
threat_level_of_trust_only(trust_score, anomaly_score) ==
    IF trust_score >= 9 * (FxScale \div 10) THEN "CRITICAL"
    ELSE IF trust_score >= 7 * (FxScale \div 10) THEN "HIGH"
    ELSE IF trust_score >= 5 * (FxScale \div 10) THEN "MEDIUM"
    ELSE "LOW"

_calculate_threat_level(trust_score, anomaly_score) ==
    IF Max(trust_score, anomaly_score) >= 9 * (FxScale \div 10) THEN "CRITICAL"
    ELSE IF Max(trust_score, anomaly_score) >= 7 * (FxScale \div 10) THEN "HIGH"
    ELSE IF Max(trust_score, anomaly_score) >= 5 * (FxScale \div 10) THEN "MEDIUM"
    ELSE "LOW"

\* the parts the summary string is formatted from
_generate_summary(trust_score, techniques) ==
    IF techniques = <<>>
    THEN [threat_level |-> _calculate_threat_level(trust_score, 0), techniques |-> 0]
    ELSE [threat_level |-> _calculate_threat_level(trust_score, 0),
          technique_name |-> techniques[1].technique_name,
          technique_id |-> techniques[1].technique_id,
          techniques |-> Len(techniques)]

\* t['confidence'] > 0.7
HighConfidence(t) == 10 * t.confidence.num > 7 * t.confidence.den
_analyze_decision_factors(anomaly_score, trust_score, techniques) ==
    [primary_indicators |->
         (IF anomaly_score > 7 * (FxScale \div 10)
          THEN <<[type |-> "Anomalie comportementale", weight |-> "high"]>> ELSE <<>>)
         \o (IF SelectSeq(techniques, HighConfidence) # <<>>
             THEN <<[type |-> "Techniques MITRE", weight |-> "high",
                     details |-> LET high == SelectSeq(techniques, HighConfidence)
                                 IN  [k \in 1..Min(Len(high), 3) |->
                                         <<high[k].technique_id, high[k].technique_name>>]]>>
             ELSE <<>>)
         \o (IF trust_score > 8 * (FxScale \div 10)
             THEN <<[type |-> "Confiance élevée", weight |-> "high"]>> ELSE <<>>),
     supporting_evidence |->
         IF anomaly_score <= 7 * (FxScale \div 10) /\ anomaly_score > 4 * (FxScale \div 10)
         THEN <<[type |-> "Anomalie modérée", weight |-> "medium"]>> ELSE <<>>,
     confidence_level |->
         IF trust_score > 8 * (FxScale \div 10) THEN "High"
         ELSE IF trust_score > 5 * (FxScale \div 10) THEN "Medium" ELSE "Low"]

\* the recommendations of a threat level, then those of the tactics
LevelRecommendations(threat_level, event) ==
    IF threat_level = "CRITICAL"
    THEN <<[priority |-> "URGENT", action |-> "Bloquer immédiatement",
            ip |-> Get(event, "src_ip", PyNone)],
           [priority |-> "HIGH", action |-> "Investigation approfondie"]>>
    ELSE IF threat_level = "HIGH"
    THEN <<[priority |-> "HIGH", action |-> "Surveillance accrue",
            ip |-> Get(event, "src_ip", PyNone)],
           [priority |-> "MEDIUM", action |-> "Rate limiting"]>>
    ELSE IF threat_level = "MEDIUM"
    THEN <<[priority |-> "MEDIUM", action |-> "Enregistrer et surveiller"]>>
    ELSE <<[priority |-> "LOW", action |-> "Logging standard"]>>
_generate_recommendations(trust_score, techniques, event) ==
    LevelRecommendations(_calculate_threat_level(trust_score, 0), event)
        \o (IF \E k \in 1..Len(techniques) :
                   techniques[k].tactic = <<"C", "r", "e", "d", "e", "n", "t", "i", "a", "l", " ", "A", "c", "c", "e", "s", "s">>
            THEN <<[priority |-> "HIGH", action |-> "Vérification des comptes"]>>
            ELSE <<>>)
        \o (IF \E k \in 1..Len(techniques) :
                   techniques[k].tactic = <<"I", "n", "i", "t", "i", "a", "l", " ", "A", "c", "c", "e", "s", "s">>
            THEN <<[priority |-> "HIGH", action |-> "Inspection des applications"]>>
            ELSE <<>>)

\* tech['matched_patterns'][:2] of every technique, in order
RECURSIVE IndicatorPatterns(_)
IndicatorPatterns(techniques) ==
    IF techniques = <<>> THEN <<>>
    ELSE SubSeq(Head(techniques).matched_patterns, 1,
                Min(Len(Head(techniques).matched_patterns), 2))
             \o IndicatorPatterns(Tail(techniques))
_extract_indicators(event, techniques) ==
    [ip_addresses |-> IF "src_ip" \in DOMAIN event /\ Truthy(event.src_ip)
                      THEN <<event.src_ip>> ELSE <<>>,
     patterns |-> IndicatorPatterns(techniques),
     techniques |-> [k \in 1..Len(techniques) |-> techniques[k].technique_id]]

\* the text _generate_llm_explanation returns, result the outcome of its query
ExplanationText(result) ==
    IF result.raised
    THEN [raised |-> FALSE,
          text |-> <<"E", "x", "p", "l", "i", "c", "a", "t", "i", "o", "n", " ", "a", "u", "t", "o", "m", "a", "t", "i", "q", "u", "e", " ", "n", "o", "n", " ", "d", "i", "s", "p", "o", "n", "i", "b", "l", "e", ":", " ">>
                       \o result.text]
    ELSE [raised |-> FALSE, text |-> result.value.response]
\* _generate_llm_explanation without its except clause
llm_explanation_without_except(http) ==
    IF query(http).raised THEN [raised |-> TRUE, text |-> query(http).text]
    ELSE [raised |-> FALSE, text |-> query(http).value.response]

_generate_llm_explanation(http) == ExplanationText(query(http))

\* the dict explain builds once the explanation text is there
Explanation(event, mitre_techniques, anomaly_score, trust_score, explanation_text) ==
    [event_id |-> Get(event, "id", "unknown"),
     timestamp |-> Get(event, "timestamp", PyNone),
     summary |-> _generate_summary(trust_score, mitre_techniques),
     explanation |-> explanation_text,
     decision_factors |->
         _analyze_decision_factors(anomaly_score, trust_score, mitre_techniques),
     mitre_mapping |->
         [techniques |-> [k \in 1..Len(mitre_techniques) |->
                             [id |-> mitre_techniques[k].technique_id,
                              name |-> mitre_techniques[k].technique_name,
                              tactic |-> mitre_techniques[k].tactic,
                              confidence |-> mitre_techniques[k].confidence]],
          kill_chain |-> get_kill_chain(mitre_techniques)],
     scores |-> [anomaly_score |-> anomaly_score, trust_score |-> trust_score,
                 threat_level |-> _calculate_threat_level(trust_score, anomaly_score)],
     recommendations |-> _generate_recommendations(trust_score, mitre_techniques, event),
     attribution |-> [source_ip |-> Get(event, "src_ip", PyNone),
                      event_type |-> Get(event, "event_type", PyNone),
                      indicators |-> _extract_indicators(event, mitre_techniques)]]
Explained(event, mitre_techniques, anomaly_score, trust_score, llm) ==
    IF llm.raised THEN [raised |-> TRUE, text |-> llm.text]
    ELSE [raised |-> FALSE,
          value |-> Explanation(event, mitre_techniques, anomaly_score, trust_score,
                                llm.text)]
\* explain: _build_context slices event.get('message', 'N/A'), which raises
\* TypeError on a message that is not a string, before the LLM is asked
explain(event, mitre_techniques, anomaly_score, trust_score, http) ==
    IF "message" \in DOMAIN event /\ event.message.t # "str"
    THEN [raised |-> TRUE, text |-> <<"n", "o", "t", " ", "s", "u", "b", "s", "c", "r", "i", "p", "t", "a", "b", "l", "e">>]
    ELSE Explained(event, mitre_techniques, anomaly_score, trust_score,
                   _generate_llm_explanation(http))

\* an event whose message is a number
NumberMessageEvent == [src_ip |-> PyStr(IP_internal), message |-> PyInt(404)]
\* the events explain is called on, with the techniques found for them
ExplainCalls ==
    {[event |-> Events[id], techniques |-> map_cache[id]] : id \in {1, 6}}
        \cup {[event |-> NumberMessageEvent, techniques |-> <<>>]}
\* the scores explain is called with: the level boundaries and both sides
LevelScores == {k * (FxScale \div 20) : k \in {0, 9, 10, 13, 14, 17, 18, 20}}

\* explain() calls followed from one construction
MaxExplainCalls == 1
\* XAIExplainer(lm_client)
XpIdle ==
    /\ xp_args = <<>>
    /\ xp_result = <<>>
    /\ xp_steps = 0
\* explainer.explain(event, mitre_techniques, anomaly_score, trust_score),
\* http what the LLM exchange of the call brings
Explain(call, anomaly_score, trust_score, http) ==
    /\ xp_steps < MaxExplainCalls
    /\ xp_steps' = xp_steps + 1
    /\ xp_args' = [event |-> call.event, mitre_techniques |-> call.techniques,
                   anomaly_score |-> anomaly_score, trust_score |-> trust_score,
                   http |-> http]
    /\ xp_result' = explain(call.event, call.techniques, anomaly_score, trust_score,
                            http)

(***************************************************************************)
(* anomaly_detector.py: AnomalyDetector.detect                             *)
(***************************************************************************)
\* self.threshold of the detector
detector_threshold == 7 * (FxScale \div 10)
\* the names _identify_suspicious_features puts in its list
_identify_suspicious_features(features) ==
    (IF Get(features, "same_ip_frequency", 0) > 5 THEN <<"same_ip_frequency">> ELSE <<>>)
    \o (IF Get(features, "suspicious_keyword_count", 0) > 2
        THEN <<"suspicious_keyword_count">> ELSE <<>>)
    \o (IF Get(features, "is_repeated_failure", 0) = 1
        THEN <<"repeated_failures">> ELSE <<>>)
    \o (IF Get(features, "is_rapid_succession", 0) = 1
        THEN <<"rapid_succession">> ELSE <<>>)
    \o (IF Get(features, "time_since_last_similar", Ratio(9999, 1)).num
               < 5 * Get(features, "time_since_last_similar", Ratio(9999, 1)).den
        THEN <<"rapid_repeat">> ELSE <<>>)
    \o (IF Get(features, "is_night", 0) = 1 THEN <<"night_activity">> ELSE <<>>)
\* detect once extract has returned r; raw_score is what the isolation forest
\* gives for the feature vector (decision_function), and predict is -1 below 0
Detected(r, raw_score) ==
    IF r.raised THEN [raised |-> TRUE]
    ELSE [raised |-> FALSE,
          history |-> r.history,
          anomaly_score |-> _normalize_score(raw_score),
          analysis |-> [is_anomaly |-> _normalize_score(raw_score) >= detector_threshold,
                        anomaly_score |-> _normalize_score(raw_score),
                        raw_score |-> raw_score,
                        prediction |-> IF raw_score < 0 THEN "ANOMALY" ELSE "NORMAL",
                        confidence |-> 2 * Abs(_normalize_score(raw_score) - FxScale \div 2),
                        features |-> r.features,
                        top_suspicious_features |->
                            _identify_suspicious_features(r.features)]]
detect(id, raw_score, history, now) == Detected(extract(id, history, now), raw_score)

(***************************************************************************)
(* main.py: SOCPipeline                                                    *)
(***************************************************************************)
bad_keywords ==
    {<<"f", "a", "i", "l", "e", "d">>,
     <<"d", "e", "n", "i", "e", "d">>,
     <<"i", "n", "v", "a", "l", "i", "d">>,
     <<"e", "r", "r", "o", "r">>,
     <<"a", "t", "t", "a", "c", "k">>,
     <<"e", "x", "p", "l", "o", "i", "t">>,
     <<"s", "c", "a", "n">>,
     <<"u", "n", "a", "u", "t", "h", "o", "r", "i", "z", "e", "d">>,
     <<"f", "o", "r", "b", "i", "d", "d", "e", "n">>}
good_keywords ==
    {<<"s", "u", "c", "c", "e", "s", "s">>,
     <<"o", "k">>,
     <<"a", "c", "c", "e", "p", "t", "e", "d">>,
     <<"a", "u", "t", "h", "o", "r", "i", "z", "e", "d">>,
     <<"v", "a", "l", "i", "d">>}
\* sum(1 for kw in keywords if kw in message)
KeywordCount(keywords, message) ==
    Cardinality({kw \in keywords : Contains(message, kw)})
HeuristicScore(bad_count, good_count) ==
    Clip(IF bad_count > good_count
         THEN FxScale \div 2 + (Min(bad_count, 5) * FxScale) \div 10
         ELSE FxScale \div 2 - (Min(good_count, 5) * FxScale) \div 10,
         0, FxScale)
_compute_heuristic_score(event) ==
    HeuristicScore(KeywordCount(bad_keywords, Lower(Get(event, "message", PyStr(<<>>)).v)),
                   KeywordCount(good_keywords, Lower(Get(event, "message", PyStr(<<>>)).v)))

\* str(n) of a natural number
RECURSIVE Decimal(_)
Decimal(n) ==
    IF n < 10 THEN <<<<"0", "1", "2", "3", "4", "5", "6", "7", "8", "9">>[n + 1]>>
    ELSE Decimal(n \div 10) \o Decimal(n % 10)
\* event.get('id', f"evt_{self.stats['total_events']}"); given_id is <<>> for
\* an event without 'id'
event_id(given_id, total_events) ==
    IF given_id # <<>> THEN given_id ELSE <<"e", "v", "t", "_">> \o Decimal(total_events)
\* event['id'] = event_id
WithId(event, id) ==
    [k \in DOMAIN event \cup {"id"} |-> IF k = "id" THEN PyStr(id) ELSE event[k]]

\* What one process_event call meets, besides the pipeline: the event
\* (Events[id], with 'id' given_id if not <<>>), the clock, the decision value
\* of the isolation forest, the LLM exchanges of stages 2 and 5, the seconds
\* the call takes (in thousandths), and fault: the stage whose agent raises an
\* exception the event does not account for (MemoryError, a knowledge base
\* with empty patterns, ...), 0 for none.
\* The pipeline as the stages see it: st = [stats, results, history, log,
\* statistics, map_log, steps, ids], history, log, statistics and map_log those
\* of the detector's extractor and of the mapper, steps the flags set in
\* result['pipeline_steps'] by the process_event under way, in the order they
\* were set, ids the value every process_event of the call under way stored
\* in event['id'], in order.

\* the flags with the mapping flag set before the calibration flag
stages_mapping_before_trust ==
    <<"anomaly_detection", "llm_analysis", "mitre_mapping", "trust_calibration",
      "xai_explanation">>
\* the keys of result['pipeline_steps'], in the order process_event sets them
pipeline_stages ==
    <<"anomaly_detection", "llm_analysis", "trust_calibration", "mitre_mapping",
      "xai_explanation">>
\* result['pipeline_steps'][stage k] = 'completed'
Flagged(st, k) == [st EXCEPT !.steps = Append(@, pipeline_stages[k])]
\* process_event leaving by an exception raised in a stage
Failure(st, stage) == [raised |-> TRUE, stage |-> stage, st |-> st]
\* the result dict of an event that passed the five stages
Result(item, st, d, a, ta, techniques, x) ==
    [event |-> WithId(Events[item.id], event_id(item.given_id, st.stats.total_events)),
     pipeline_steps |-> [step \in {st.steps[k] : k \in 1..Len(st.steps)} |-> "completed"],
     anomaly_score |-> d.anomaly_score,
     anomaly_analysis |-> d.analysis,
     llm_analysis |-> a,
     trust_score |-> ta.calibrated_score,
     trust_analysis |-> ta,
     mitre_techniques |-> techniques,
     explanation |-> x,
     processing_time |-> item.elapsed]
\* the end of process_event: statistics, self.results.append(result)
Completed(item, st, d, ta, result) ==
    [raised |-> FALSE,
     result |-> result,
     st |-> [st EXCEPT
                !.stats.total_events = @ + 1,
                !.stats.anomalies_detected = IF d.analysis.is_anomaly THEN @ + 1 ELSE @,
                !.stats.alerts_generated = IF ta.should_alert THEN @ + 1 ELSE @,
                !.stats.processing_times = Append(@, item.elapsed),
                !.results = Append(@, result)]]
\* stage 5 has returned x
AfterExplain(item, st, d, a, ta, techniques, x) ==
    IF x.raised THEN Failure(st, 5)
    ELSE Completed(item, Flagged(st, 5), d, ta,
                   Result(item, Flagged(st, 5), d, a, ta, techniques, x.value))
\* stage 4 has returned techniques: the mapper has counted them, and
\* self.stats['techniques_detected'] is updated before stage 5
AfterMapping(item, st, d, a, ta, techniques) ==
    IF item.fault = 5 THEN Failure(st, 5)
    ELSE AfterExplain(item, st, d, a, ta, techniques,
                      explain(WithId(Events[item.id],
                                     event_id(item.given_id, st.stats.total_events)),
                              techniques, d.anomaly_score, ta.calibrated_score,
                              item.explain_http))
Mapped(st, techniques) ==
    [st EXCEPT
        !.statistics =
            [total_mappings |-> @.total_mappings + Len(techniques),
             techniques_detected |-> @.techniques_detected
                 \cup {techniques[i].technique_id : i \in 1..Len(techniques)},
             tactics_detected |-> @.tactics_detected
                 \cup {techniques[i].tactic : i \in 1..Len(techniques)}],
        !.map_log = Append(@, techniques),
        !.stats.techniques_detected =
            @ \cup {techniques[i].technique_id : i \in 1..Len(techniques)}]
\* stage 3 has returned ta
AfterTrust(item, st, d, a, ta) ==
    IF item.fault = 4 THEN Failure(Flagged(st, 3), 4)
    ELSE AfterMapping(item, Mapped(Flagged(Flagged(st, 3), 4), map_cache[item.id]),
                      d, a, ta, map_cache[item.id])
\* stage 2 has returned a
AfterAnalysis(item, st, d, a, T, thr) ==
    IF a.raised THEN Failure(st, 2)
    ELSE IF item.fault = 3 THEN Failure(Flagged(st, 2), 3)
    ELSE AfterTrust(item, Flagged(st, 2), d, a.value,
                    calibrate_decision(a.value.confidence, d.anomaly_score,
                                       _compute_heuristic_score(Events[item.id]), T, thr))
\* stage 1 has returned d: the extractor has the event in its history
AfterDetect(item, st, d, T, thr) ==
    IF d.raised THEN Failure(st, 1)
    ELSE IF item.fault = 2
    THEN Failure(Flagged([st EXCEPT !.history = d.history, !.log = Append(@, item.id)],
                         1), 2)
    ELSE AfterAnalysis(item,
                       Flagged([st EXCEPT !.history = d.history,
                                          !.log = Append(@, item.id)], 1),
                       d, analyze_security_event(item.analysis_http), T, thr)
\* lines 65-80: event['id'] = event_id, and result['pipeline_steps'] = {}
Begun(item, st) ==
    [st EXCEPT !.steps = <<>>,
               !.ids = Append(@, event_id(item.given_id, st.stats.total_events))]
\* process_event on a pipeline whose trust agent has temperature T and
\* threshold thr: [raised, result, st]
process_event(item, st, T, thr) ==
    IF item.fault = 1 THEN Failure(Begun(item, st), 1)
    ELSE AfterDetect(item, Begun(item, st),
                     detect(item.id, item.raw_score, st.history, item.now), T, thr)

\* process_batch dropping the events after the first failure
RECURSIVE batch_stops_at_failure(_, _, _, _, _)
batch_stops_at_failure(items, st, results, T, thr) ==
    IF items = <<>> THEN [results |-> results, st |-> st]
    ELSE IF process_event(Head(items), st, T, thr).raised
    THEN [results |-> results, st |-> process_event(Head(items), st, T, thr).st]
    ELSE batch_stops_at_failure(Tail(items), process_event(Head(items), st, T, thr).st,
                                Append(results,
                                       process_event(Head(items), st, T, thr).result),
                                T, thr)

\* process_batch: the loop from the events left, results the list so far
RECURSIVE BatchFrom(_, _, _, _, _)
BatchStep(rest, r, results, T, thr) ==
    BatchFrom(rest, r.st, IF r.raised THEN results ELSE Append(results, r.result), T, thr)
BatchFrom(items, st, results, T, thr) ==
    IF items = <<>> THEN [results |-> results, st |-> st]
    ELSE BatchStep(Tail(items), process_event(Head(items), st, T, thr), results, T, thr)
process_batch(items, st, T, thr) == BatchFrom(items, st, <<>>, T, thr)

\* the decision values the forest gives: a clear anomaly and a clear normal
PipeRawScores == {0 - FxScale \div 2, FxScale \div 2}
Item(id, raw_score, analysis_http, explain_http, fault) ==
    [id |-> id, given_id |-> <<>>, now |-> Clock(2024, 1, 17, 14, 30, 0),
     raw_score |-> raw_score, analysis_http |-> analysis_http,
     explain_http |-> explain_http, fault |-> fault, elapsed |-> 10 * id + fault]
AnswerMalicious == [kind |-> "ok", status |-> 200, content |-> R_malicious]
\* the calls process_event is followed on: every LLM outcome at stage 2, an
\* answer or a timeout at stage 5, and a fault in each stage
PipeItems ==
    {Item(id, raw_score, analysis_http, explain_http, 0) :
         id \in {1, 6}, raw_score \in PipeRawScores, analysis_http \in HttpExchanges,
         explain_http \in {AnswerMalicious, [kind |-> "timeout"]}}
    \cup {Item(id, 0 - FxScale \div 2, AnswerMalicious, AnswerMalicious, fault) :
              id \in {1, 6}, fault \in 1..5}
\* the events batches are made of: two that pass, and events that fail in
\* stage 2 (a body without 'choices'), in stage 4 and in stage 5
BatchItems ==
    {Item(1, 0 - FxScale \div 2, AnswerMalicious, AnswerMalicious, 0),
     Item(6, FxScale \div 2, [kind |-> "timeout"], [kind |-> "timeout"], 0),
     Item(3, 0 - FxScale \div 2, [kind |-> "nochoices", status |-> 200],
          AnswerMalicious, 0),
     Item(1, 0 - FxScale \div 2, AnswerMalicious, AnswerMalicious, 4),
     Item(3, FxScale \div 2, AnswerMalicious, AnswerMalicious, 5)}
\* the batches: every list of at most three of them
Batches == UNION {[1..n -> BatchItems] : n \in 0..3}

\* process_event and process_batch calls followed from one construction
MaxPipeCalls == 1
NoPipeCall == [op |-> "none"]
\* the pipeline as the stages see it
PipeState ==
    [stats |-> pl_stats, results |-> pl_results, history |-> event_history,
     log |-> fx_log, statistics |-> statistics, map_log |-> map_log,
     steps |-> <<>>, ids |-> <<>>]
\* SOCPipeline.__init__
PipeIdle ==
    /\ pl_stats = [total_events |-> 0, anomalies_detected |-> 0, alerts_generated |-> 0,
                   techniques_detected |-> {}, processing_times |-> <<>>]
    /\ pl_results = <<>>
    /\ pl_call = NoPipeCall
    /\ pl_steps = 0
\* the pipeline after a call that left it as st
PipeBecomes(st) ==
    /\ pl_stats' = st.stats
    /\ pl_results' = st.results
    /\ event_history' = st.history
    /\ fx_log' = st.log
    /\ statistics' = st.statistics
    /\ map_log' = st.map_log
    /\ pl_steps' = pl_steps + 1
    /\ UNCHANGED <<fx_event, fx_features, fx_vector, fx_raised, fx_before, fx_now,
                   fx_steps, map_arg, map_result, kc_arg, kc_result, map_steps,
                   mx_arg, mx_result>>
\* pipeline.process_event(event) has ended as r
EventProcessed(item, r) ==
    /\ pl_call' = [op |-> "process_event", items |-> <<item>>, before |-> PipeState,
                   raised |-> r.raised,
                   returned |-> IF r.raised THEN <<>> ELSE <<r.result>>,
                   stage |-> IF r.raised THEN r.stage ELSE 0,
                   steps |-> r.st.steps, ids |-> r.st.ids]
    /\ PipeBecomes(r.st)
ProcessEvent(item) ==
    /\ pl_steps < MaxPipeCalls
    /\ EventProcessed(item, process_event(item, PipeState, temperature, threshold))
\* pipeline.process_batch(events) has returned
BatchProcessed(items, r) ==
    /\ pl_call' = [op |-> "process_batch", items |-> items, before |-> PipeState,
                   raised |-> FALSE, returned |-> r.results, stage |-> 0,
                   steps |-> r.st.steps, ids |-> r.st.ids]
    /\ PipeBecomes(r.st)
ProcessBatch(items) ==
    /\ pl_steps < MaxPipeCalls
    /\ BatchProcessed(items, process_batch(items, PipeState, temperature, threshold))

(***************************************************************************)
(* Specifications                                                          *)
(***************************************************************************)
\* the FeatureExtractor alone, from the histories of PrefillShapes
InitFx == FxInitPrefilled /\ IpIdle /\ NormIdle /\ MapIdle /\ TrustIdle /\ XpIdle /\ PipeIdle
NextFx ==
    \E id \in EventIds, now \in ClockValues :
        Extract(id, now) /\ UNCHANGED <<ip_vars, norm_vars, map_vars, trust_vars, xp_vars, pl_vars>>
SpecFx == InitFx /\ [][NextFx]_vars

\* _is_private_ip alone, on the strings of IpStrings
InitIp == IpInit /\ FxInit /\ NormIdle /\ MapIdle /\ TrustIdle /\ XpIdle /\ PipeIdle
NextIp == IsPrivateIp /\ UNCHANGED <<fx_vars, norm_vars, map_vars, trust_vars, xp_vars, pl_vars>>
SpecIp == InitIp /\ [][NextIp]_vars

\* _normalize_score alone, on the raw values of RawScores
InitNorm == NormIdle /\ FxInit /\ IpIdle /\ MapIdle /\ TrustIdle /\ XpIdle /\ PipeIdle
NextNorm ==
    \E raw_score \in RawScores :
        NormalizeScore(raw_score) /\ UNCHANGED <<fx_vars, ip_vars, map_vars, trust_vars, xp_vars, pl_vars>>
SpecNorm == InitNorm /\ [][NextNorm]_vars

\* the events that differ in what map_event reads of them
MapIds ==
    {id \in EventIds :
        \A p \in 1..(id - 1) :
            \/ Get(Events[p], "message", PyNone) # Get(Events[id], "message", PyNone)
            \/ Get(Events[p], "event_type", PyNone)
                   # Get(Events[id], "event_type", PyNone)}
\* one MitreMapper over the built-in knowledge base
InitMap == MapInit /\ FxInit /\ IpIdle /\ NormIdle /\ TrustIdle /\ XpIdle /\ PipeIdle
NextMap ==
    \/ \E id \in MapIds :
           MapEvent(id) /\ UNCHANGED <<fx_vars, ip_vars, norm_vars, trust_vars, xp_vars, pl_vars>>
    \/ \E techniques \in KcInputs :
           GetKillChain(techniques)
               /\ UNCHANGED <<fx_vars, ip_vars, norm_vars, trust_vars, xp_vars, pl_vars>>
SpecMap == InitMap /\ [][NextMap]_vars

\* one MitreMapper, its statistics over map_event and create_mitre_matrix
InitMatrix == MapInit /\ FxInit /\ IpIdle /\ NormIdle /\ TrustIdle /\ XpIdle /\ PipeIdle
NextMatrix ==
    \/ \E id \in EventIds :
           MapEvent(id) /\ UNCHANGED <<fx_vars, ip_vars, norm_vars, trust_vars, xp_vars, pl_vars>>
    \/ \E ids \in MatrixInputs :
           CreateMitreMatrix(ids)
               /\ UNCHANGED <<fx_vars, ip_vars, norm_vars, trust_vars, xp_vars, pl_vars>>
SpecMatrix == InitMatrix /\ [][NextMatrix]_vars

\* one TrustAgent
InitTrust == TrustInit /\ FxInit /\ IpIdle /\ NormIdle /\ MapIdle /\ XpIdle /\ PipeIdle
NextTrust ==
    \E llm_confidence \in ScoreGrid, anomaly_score \in ScoreGrid,
       heuristic_score \in ScoreGrid :
        CalibrateDecision(llm_confidence, anomaly_score, heuristic_score)
            /\ UNCHANGED <<fx_vars, ip_vars, norm_vars, map_vars, xp_vars, pl_vars>>
SpecTrust == InitTrust /\ [][NextTrust]_vars

\* _apply_temperature_scaling alone, on the raw scores of ScaleInputs
InitScale == ScaleInit /\ FxInit /\ IpIdle /\ NormIdle /\ MapIdle /\ XpIdle /\ PipeIdle
NextScale ==
    \E raw_score \in ScaleInputs :
        ApplyTemperatureScaling(raw_score)
            /\ UNCHANGED <<fx_vars, ip_vars, norm_vars, map_vars, xp_vars, pl_vars>>
SpecScale == InitScale /\ [][NextScale]_vars

\* one TrustAgent and its calibration buffer
InitCalib == CalibInit /\ FxInit /\ IpIdle /\ NormIdle /\ MapIdle /\ XpIdle /\ PipeIdle
NextCalib ==
    \/ \E prediction \in SamplePredictions, ground_truth \in {0, 1} :
           AddCalibrationSample(prediction, ground_truth)
               /\ UNCHANGED <<fx_vars, ip_vars, norm_vars, map_vars, xp_vars, pl_vars>>
    \/ ComputeCalibrationMetrics /\ UNCHANGED <<fx_vars, ip_vars, norm_vars, map_vars, xp_vars, pl_vars>>
    \/ OptimizeTemperature /\ UNCHANGED <<fx_vars, ip_vars, norm_vars, map_vars, xp_vars, pl_vars>>
    \/ \E file \in CalibrationFiles :
           LoadCalibrationData(file)
               /\ UNCHANGED <<fx_vars, ip_vars, norm_vars, map_vars, xp_vars, pl_vars>>
    \/ \E score \in {0, 19 * (FxScale \div 20)} :
           CalibrateDecision(score, score, score)
               /\ UNCHANGED <<fx_vars, ip_vars, norm_vars, map_vars, xp_vars, pl_vars>>
SpecCalib == InitCalib /\ [][NextCalib]_vars

\* one XAIExplainer
InitExplain == XpIdle /\ FxInit /\ IpIdle /\ NormIdle /\ MapIdle /\ TrustIdle /\ PipeIdle
NextExplain ==
    \E call \in ExplainCalls, anomaly_score \in LevelScores,
       trust_score \in LevelScores, http \in HttpExchanges :
        Explain(call, anomaly_score, trust_score, http)
            /\ UNCHANGED <<fx_vars, ip_vars, norm_vars, map_vars, trust_vars, pl_vars>>
SpecExplain == InitExplain /\ [][NextExplain]_vars

\* one SOCPipeline
InitPipe == PipeIdle /\ FxInit /\ IpIdle /\ NormIdle /\ MapIdle /\ TrustIdle /\ XpIdle
NextPipe ==
    \/ \E item \in PipeItems :
           ProcessEvent(item) /\ UNCHANGED <<ip_vars, norm_vars, trust_vars, xp_vars>>
    \/ \E items \in Batches :
           ProcessBatch(items) /\ UNCHANGED <<ip_vars, norm_vars, trust_vars, xp_vars>>
SpecPipe == InitPipe /\ [][NextPipe]_vars

(***************************************************************************)
(* Claims about the FeatureExtractor                                       *)
(***************************************************************************)
Called == fx_event # 0
TimestampOf(id) == Get(Events[id], "timestamp", PyNone)
\* the timestamp is a string that fromisoformat rejects
TimestampUnparsable(id) ==
    TimestampOf(id).t = "str" /\ ~FromIsoformat(ReplaceZ(TimestampOf(id).v)).ok
\* the timestamp is absent or is not a string
TimestampNotString(id) == TimestampOf(id).t # "str"
TemporalAre(h, d, w, n) ==
    /\ fx_features["hour"] = h /\ fx_features["day_of_week"] = d
    /\ fx_features["is_weekend"] = w /\ fx_features["is_night"] = n

FeatureKeys ==
    {"hour", "day_of_week", "is_weekend", "is_night",
     "src_is_private", "dst_is_private", "src_port", "dst_port", "is_common_port",
     "same_ip_frequency", "same_type_frequency", "time_since_last_similar",
     "suspicious_keyword_count", "message_length", "special_char_ratio",
     "has_ip_pattern", "has_url_pattern", "http_code", "is_http_error",
     "event_type_encoded", "is_repeated_failure", "is_rapid_succession"}

\* C3: for every event, whatever fields it has, extract() yields exactly the
\* 22 named keys, and the vector has length 22 with position k holding the
\* k-th named feature, from hour to is_rapid_succession.
C3_VectorShape ==
    Called =>
        /\ ~fx_raised
        /\ DOMAIN fx_features = FeatureKeys
        /\ Cardinality(FeatureKeys) = 22
        /\ Len(fx_vector) = 22
        /\ \A k \in 1..22 : fx_vector[k] = fx_features[feature_names[k]]
        /\ feature_names[1] = "hour" /\ feature_names[22] = "is_rapid_succession"
        /\ \A j, k \in 1..22 : feature_names[j] = feature_names[k] => j = k
C3_Witness ==
    /\ Called /\ DOMAIN Events[fx_event] = {} /\ Len(fx_vector) = 22

\* the events extracted before the current call, oldest first
Earlier == SubSeq(fx_log, 1, Len(fx_log) - 1)
\* the positions of the last n entries of seq
LastPositions(seq, n) == {k \in 1..Len(seq) : k > Len(seq) - n}
HasSrcIp(id) == "src_ip" \in DOMAIN Events[id]
\* event p carries the src_ip of the current event id (an event without
\* src_ip counts as having the empty address)
SharesSrcIp(p, id) ==
    /\ HasSrcIp(p)
    /\ Events[p]["src_ip"].v = (IF HasSrcIp(id) THEN Events[id]["src_ip"].v ELSE <<>>)
SharesEventType(p, id) ==
    /\ "event_type" \in DOMAIN Events[p]
    /\ Events[p]["event_type"].v =
          (IF "event_type" \in DOMAIN Events[id] THEN Events[id]["event_type"].v ELSE <<>>)

\* C4: same_ip_frequency (same_type_frequency) is the number of the last 100
\* events extracted before the current one that share its src_ip
\* (event_type); so neither exceeds 100, and the k-th of k consecutive
\* events of one src_ip on a fresh extractor reports k - 1.
C4_Frequencies ==
    (Called /\ ~fx_raised) =>
        /\ fx_features["same_ip_frequency"] =
              Cardinality({k \in LastPositions(Earlier, 100) :
                              SharesSrcIp(Earlier[k], fx_event)})
        /\ fx_features["same_type_frequency"] =
              Cardinality({k \in LastPositions(Earlier, 100) :
                              SharesEventType(Earlier[k], fx_event)})
        /\ fx_features["same_ip_frequency"] <= 100
        /\ fx_features["same_type_frequency"] <= 100
        /\ (/\ Len(fx_log) <= 100
            /\ \A k \in 1..Len(fx_log) : SharesSrcIp(fx_log[k], fx_event))
              => fx_features["same_ip_frequency"] = Len(fx_log) - 1
C4_Witness ==
    /\ Called /\ ~fx_raised /\ Len(fx_log) = 10
    /\ \A k \in 1..Len(fx_log) : SharesSrcIp(fx_log[k], fx_event)
    /\ fx_features["same_ip_frequency"] = 9
C4_WindowWitness ==
    /\ Called /\ ~fx_raised /\ Len(fx_log) > 101
    /\ fx_features["same_ip_frequency"] = 100

\* C5: the history has length min(n, 1000), n the number of completed
\* extractions, and holds the most recent of them in extraction order; the
\* event of the last call is its last entry, appended once.
C5_History ==
    /\ Len(event_history) = Min(Len(fx_log), 1000)
    /\ \A k \in 1..Len(event_history) :
          event_history[k] = fx_log[Len(fx_log) - Len(event_history) + k]
    /\ (Called /\ ~fx_raised) =>
          /\ event_history[Len(event_history)] = fx_event
          /\ Len(event_history) = Min(Len(fx_before) + 1, 1000)
          /\ \A k \in 1..(Len(event_history) - 1) :
                event_history[k] = fx_before[Len(fx_before) - Len(event_history) + 1 + k]
C5_Witness ==
    /\ Called /\ ~fx_raised /\ Len(fx_log) > 1000 /\ Len(event_history) = 1000
    /\ fx_log[1] # event_history[1]

(***************************************************************************)
(* Claims about _is_private_ip                                             *)
(***************************************************************************)
\* the decimal octets of a well-formed dotted-quad, <<>> for any other string
OctetsOf(ip) ==
    LET raw == Split(ip, ".")
        wellFormed == /\ Len(raw) = 4
                      /\ \A k \in 1..4 : /\ Len(raw[k]) \in 1..3
                                         /\ AllDigits(raw[k])
                                         /\ DigitsValue(raw[k]) <= 255
    IN  IF wellFormed THEN [k \in 1..4 |-> DigitsValue(raw[k])] ELSE <<>>
\* 10.0.0.0/8, 172.16.0.0/12, 192.168.0.0/16
InRfc1918(o) ==
    \/ o[1] = 10
    \/ o[1] = 172 /\ o[2] \in 16..31
    \/ o[1] = 192 /\ o[2] = 168

\* C2: _is_private_ip never raises, and returns true if and only if the
\* string is a well-formed IPv4 address inside 10.0.0.0/8, 172.16.0.0/12 or
\* 192.168.0.0/16; every malformed string gives false.
C2_PrivateIffRfc1918 ==
    ip_result.called =>
        /\ ~ip_result.raised
        /\ ip_result.value <=> (OctetsOf(ip_arg) # <<>> /\ InRfc1918(OctetsOf(ip_arg)))

(***************************************************************************)
(* Claims about _normalize_score                                           *)
(***************************************************************************)
\* C6: for all raw decision values r1 <= r2, _normalize_score(r1) >=
\* _normalize_score(r2), and every returned anomaly score lies in [0, 1].
C6_NormalizeMonotone ==
    \A i, j \in 1..Len(norm_calls) :
        /\ norm_calls[i].score >= 0
        /\ norm_calls[i].score <= FxScale
        /\ norm_calls[i].raw <= norm_calls[j].raw
               => norm_calls[i].score >= norm_calls[j].score

\* two calls, the second on a larger raw value and with a smaller score
C6_Witness ==
    /\ Len(norm_calls) = 2
    /\ norm_calls[1].raw < norm_calls[2].raw
    /\ norm_calls[1].score > norm_calls[2].score

(***************************************************************************)
(* Claims about the MitreMapper                                            *)
(***************************************************************************)
Range(s) == {s[i] : i \in 1..Len(s)}
\* the string the patterns are searched in: message, a space, event_type,
\* lower-cased, read off the event of the last map_event() call
SearchString ==
    LET event == Events[map_arg]
        message == IF "message" \in DOMAIN event THEN event.message.v ELSE <<>>
        event_type == IF "event_type" \in DOMAIN event THEN event.event_type.v ELSE <<>>
    IN  Lower(message \o <<" ">> \o event_type)
\* the positions of the patterns of a row that match SearchString
Hits(row) ==
    LET patterns == Split(row.patterns, "|")
    IN  {k \in 1..Len(patterns) : Search(Strip(patterns[k]), SearchString)}
\* the positions in map_result of the matches of a row
MatchesOf(row) == {i \in 1..Len(map_result) : map_result[i].technique_id = row.technique}

\* C7: map_event returns a match for a technique of the knowledge base iff at
\* least one of its patterns matches the lower-cased 'message event_type'
\* string, and the confidence of the match is (patterns that matched) /
\* (patterns of the technique), a value in (0, 1].
C7_MatchIffPattern ==
    map_arg # 0 =>
        \A r \in 1..Len(minimal_data) :
            LET row == minimal_data[r]
                total == Len(Split(row.patterns, "|"))
            IN  /\ (Hits(row) = {}) <=> (MatchesOf(row) = {})
                /\ Cardinality(MatchesOf(row)) <= 1
                /\ \A i \in MatchesOf(row) :
                       LET confidence == map_result[i].confidence
                       IN  /\ confidence.num * total
                                  = Cardinality(Hits(row)) * confidence.den
                           /\ confidence.num > 0
                           /\ confidence.num <= confidence.den

\* a call that matched several techniques, one of them on two of its patterns,
\* and left other techniques out
C7_Witness ==
    /\ map_arg # 0
    /\ Len(map_result) >= 2
    /\ Len(map_result) < Len(minimal_data)
    /\ \E i \in 1..Len(map_result) :
           map_result[i].match_count = 2 /\ map_result[i].total_patterns = 5

PositionIn(order, tactic) == CHOOSE k \in 1..Len(order) : order[k] = tactic
InputTactics == {kc_arg[i].tactic : i \in 1..Len(kc_arg)}
\* kc_result is a duplicate-free subsequence of the 14 stages
KillChainOrdered ==
    /\ Len(kill_chain_order) = 14
    /\ \A i \in 1..Len(kc_result) : kc_result[i] \in Range(kill_chain_order)
    /\ \A i, j \in 1..Len(kc_result) :
           i < j => PositionIn(kill_chain_order, kc_result[i])
                        < PositionIn(kill_chain_order, kc_result[j])

\* C8 as stated: the elements of the kill chain are exactly the distinct
\* tactics of the input matches.
C8_AsStated == KillChainOrdered /\ Range(kc_result) = InputTactics

\* C8: get_kill_chain returns a duplicate-free subsequence of the 14-stage
\* order whose elements are exactly the distinct tactics of the input matches
\* that are stages of that order; any other tactic of the input is dropped.
C8_KillChain ==
    KillChainOrdered /\ Range(kc_result) = InputTactics \cap Range(kill_chain_order)

\* an input with a tactic outside the 14 stages whose kill chain is not empty
C8_Witness ==
    /\ kc_result # <<>>
    /\ InputTactics \ Range(kill_chain_order) # {}

\* an input whose tactics come in another order than the stages
C8_OrderWitness ==
    /\ Len(kc_result) = 2
    /\ Len(kc_arg) = 2
    /\ kc_arg[1].tactic = kc_result[2]

\* 'Credential Access'
CredentialAccess ==
    <<"C", "r", "e", "d", "e", "n", "t", "i", "a", "l", " ", "A", "c", "c", "e", "s", "s">>

\* C9: with the built-in knowledge base, map_event on the event with message
\* 'Failed password for invalid user admin from 203.0.113.10 port 54321 ssh2'
\* and event_type 'ssh_attempt' returns a match with technique_id T1110,
\* confidence > 0 and tactic 'Credential Access'.
C9_BruteForceScenario ==
    (/\ map_arg # 0
     /\ Get(Events[map_arg], "message", PyNone) = PyStr(MSG_spec)
     /\ Get(Events[map_arg], "event_type", PyNone) = PyStr(T_ssh_attempt))
        => \E i \in 1..Len(map_result) :
               /\ map_result[i].technique_id = "T1110"
               /\ map_result[i].confidence.num > 0
               /\ map_result[i].tactic = CredentialAccess

\* the scenario event has been mapped, T1110 first among its matches
C9_Witness ==
    /\ map_arg # 0
    /\ Get(Events[map_arg], "message", PyNone) = PyStr(MSG_spec)
    /\ Get(Events[map_arg], "event_type", PyNone) = PyStr(T_ssh_attempt)
    /\ map_result # <<>>
    /\ map_result[1].technique_id = "T1110"

(***************************************************************************)
(* Claims about the TrustAgent                                             *)
(***************************************************************************)
\* n / d as a score
Score(n, d) == (n * FxScale) \div d
\* the agent has the default temperature 1.5 and threshold 0.7 and its last
\* call was calibrate_decision(0.9, 0.95, 0.8)
EvidentAttackCall ==
    /\ temperature = 15
    /\ threshold = Score(7, 10)
    /\ td_args = <<Score(9, 10), Score(95, 100), Score(8, 10)>>

\* C10: with temperature 1.5 and threshold 0.7, calibrate_decision(0.9, 0.95,
\* 0.8) fuses to raw = 0.4*0.9 + 0.4*0.95 + 0.2*0.8 and returns should_alert
\* = true.
C10_EvidentAttack ==
    EvidentAttackCall =>
        /\ 10 * td_analysis.raw_score
               = 4 * Score(9, 10) + 4 * Score(95, 100) + 2 * Score(8, 10)
        /\ td_analysis.should_alert = TRUE

\* the call has been made and its calibrated score is at or above 0.7
C10_Witness ==
    /\ EvidentAttackCall
    /\ td_analysis.calibrated_score >= threshold
    /\ td_analysis.calibrated_score < td_analysis.raw_score

\* calibrate_decision has been called on the agent
Decided == td_args # <<>>

\* C11: for every input triple and every temperature and threshold, the
\* returned should_alert is true exactly when calibrated_score >= threshold,
\* and decision_confidence is min(1, |calibrated_score - threshold| / 0.5), a
\* value of [0, 1].
C11_DecisionRule ==
    Decided =>
        /\ td_analysis.should_alert = TRUE <=> td_analysis.calibrated_score >= threshold
        /\ td_analysis.should_alert \in BOOLEAN
        /\ td_analysis.decision_confidence
               = Min(FxScale, 2 * Abs(td_analysis.calibrated_score - threshold))
        /\ td_analysis.decision_confidence \in 0..FxScale

\* a call whose calibrated score is exactly the threshold: it alerts, with
\* decision confidence 0
C11_Witness ==
    /\ Decided
    /\ td_analysis.calibrated_score = threshold
    /\ td_analysis.should_alert = TRUE
    /\ td_analysis.decision_confidence = 0
\* a call farther than 0.5 from the threshold: the confidence is cut to 1
C11_ClippedWitness ==
    /\ Decided
    /\ 2 * Abs(td_analysis.calibrated_score - threshold) > FxScale
    /\ td_analysis.decision_confidence = FxScale

\* _apply_temperature_scaling has been called on the agent
Scaled == sc_arg # <<>>
Half == FxScale \div 2
\* -1, 0, 1: the score is below, at, above 0.5
Side(s) ==
    IF s.kind = "low" THEN 0 - 1
    ELSE IF s.kind = "high" THEN 1
    ELSE IF s.v < Half THEN 0 - 1 ELSE IF s.v > Half THEN 1 ELSE 0
\* score a is strictly farther from 0.5 than score b; a Low or High score is
\* within 1e-4 of an end, nearer to it the larger its e
Farther(a, b) ==
    IF a.kind = "fx" /\ b.kind = "fx" THEN Abs(a.v - Half) > Abs(b.v - Half)
    ELSE IF a.kind = "fx" THEN a.v \in {0, FxScale}
    ELSE IF b.kind = "fx" THEN b.v \notin {0, FxScale}
    ELSE a.e > b.e
\* the score is in the open interval (0, 1) and is not 0.5
OpenNotHalf(s) == s.kind = "fx" => s.v \in (1..(FxScale - 1)) \ {Half}
\* the score differs from 0.5 by more than the arithmetic's rounding
ClearOfHalf(s) == s.kind = "fx" => Abs(s.v - Half) >= FxScale \div 100
\* the score clipped to [1e-10, 1 - 1e-10], for a score of (0, 1)
ClippedScore(s) ==
    IF s.kind = "fx" THEN s ELSE [kind |-> s.kind, e |-> Min(s.e, EpsilonDigits)]

\* C12 as stated: for a raw score x of (0, 1) other than 0.5 the result is on
\* the same side of 0.5 as x, strictly closer to 0.5 than x when the
\* temperature is above 1 and strictly farther than x when it is below 1
\* (strictness asked only of scores clear of 0.5 by more than rounding).
C12_AsStated ==
    (Scaled /\ OpenNotHalf(sc_arg) /\ ClearOfHalf(sc_arg)) =>
        /\ Side(sc_result) = Side(sc_arg)
        /\ temperature > 10 => Farther(sc_arg, sc_result)
        /\ temperature < 10 => Farther(sc_result, sc_arg)

\* C12: for a raw score x of (0, 1) other than 0.5 the result is never on the
\* other side of 0.5; when the temperature is above 1 it is strictly closer
\* to 0.5 than x; when the temperature is below 1 it is strictly farther
\* from 0.5 than x clipped to [1e-10, 1 - 1e-10], hence than x itself when x
\* is in that range (strictness up to rounding: for x clear of 0.5).
C12_TemperatureScaling ==
    (Scaled /\ OpenNotHalf(sc_arg)) =>
        /\ Side(sc_result) \in {0, Side(sc_arg)}
        /\ ClearOfHalf(sc_arg) =>
              /\ Side(sc_result) = Side(sc_arg)
              /\ temperature > 10 => Farther(sc_arg, sc_result)
              /\ temperature < 10 => Farther(sc_result, ClippedScore(sc_arg))

\* a score below 1e-10 scaled with a temperature below 1: the result is
\* farther from 0.5 than 1e-10 and closer to 0.5 than the score
C12_Witness ==
    /\ Scaled /\ temperature < 10
    /\ sc_arg.kind = "low" /\ sc_arg.e > EpsilonDigits
    /\ Farther(sc_result, ClippedScore(sc_arg))
    /\ Farther(sc_arg, sc_result)
\* 0.9 scaled with temperature 1.5 and with temperature 0.5
C12_FlattenWitness ==
    /\ Scaled /\ temperature = 15 /\ sc_arg = Fx(9 * (FxScale \div 10))
    /\ Farther(sc_arg, sc_result) /\ Side(sc_result) = 1
C12_SharpenWitness ==
    /\ Scaled /\ temperature = 5 /\ sc_arg = Fx(9 * (FxScale \div 10))
    /\ Farther(sc_result, sc_arg) /\ Side(sc_result) = 1

\* the accuracy of the model's logarithm and exponential: 2e-4
RoundTripTolerance == FxScale \div 5000

\* C13: with temperature 1, calibrate_decision returns a calibrated_score
\* equal (to the accuracy of the arithmetic) to the fused raw score
\* 0.4 * llm_confidence + 0.4 * anomaly_score + 0.2 * heuristic_score, for
\* every raw score of the clipped range.
C13_UnitTemperature ==
    (Decided /\ temperature = 10) =>
        /\ 10 * td_analysis.raw_score
               = 4 * td_args[1] + 4 * td_args[2] + 2 * td_args[3]
        /\ Abs(td_analysis.calibrated_score - td_analysis.raw_score)
               <= RoundTripTolerance

\* a call at temperature 1 with a raw score strictly between 0.5 and 1 that
\* comes back through the logit and the sigmoid
C13_Witness ==
    /\ Decided /\ temperature = 10
    /\ td_analysis.raw_score \in (Half + 1)..(FxScale - 1)
    /\ td_analysis.calibrated_score > Half
    /\ Abs(td_analysis.calibrated_score - td_analysis.raw_score) <= RoundTripTolerance

(***************************************************************************)
(* Claims about the calibration buffer                                     *)
(***************************************************************************)
\* the last call on the buffer was this method
LastCall(op) == ta_call.op = op
\* the last call left temperature, threshold and buffer as it found them
AgentUntouched ==
    /\ temperature = ta_call.before.temperature
    /\ threshold = ta_call.before.threshold
    /\ calibration_data = ta_call.before.calibration_data
MetricKeys ==
    {"brier_score", "ece", "accuracy", "precision", "recall", "f1_score",
     "confusion_matrix", "total_samples"}

\* C14: with fewer than 10 samples in the buffer compute_calibration_metrics
\* returns a result that carries an error text and the sample count and no
\* metric field, and leaves temperature, threshold and buffer unchanged;
\* with 10 or more samples it returns the metrics.
C14_MetricsMinimum ==
    LastCall("compute_calibration_metrics") =>
        /\ AgentUntouched
        /\ Len(calibration_data) < 10 =>
              /\ DOMAIN ta_call.result = {"error", "samples"}
              /\ ta_call.result.samples = Len(calibration_data)
        /\ Len(calibration_data) >= 10 =>
              /\ DOMAIN ta_call.result = MetricKeys
              /\ ta_call.result.total_samples = Len(calibration_data)
              /\ ta_call.result.confusion_matrix.tp + ta_call.result.confusion_matrix.fp
                   + ta_call.result.confusion_matrix.tn
                   + ta_call.result.confusion_matrix.fn = Len(calibration_data)

\* the call was made on nine samples and answered with their count
C14_Witness ==
    /\ LastCall("compute_calibration_metrics")
    /\ Len(calibration_data) = 9
    /\ "error" \in DOMAIN ta_call.result
    /\ ta_call.result.samples = 9
\* the call was made on ten samples and answered with metrics
C14_MetricsWitness ==
    /\ LastCall("compute_calibration_metrics")
    /\ Len(calibration_data) = 10
    /\ ta_call.result.total_samples = 10
    /\ ta_call.result.brier_score > 0

\* C15: with fewer than 20 samples optimize_temperature returns the
\* temperature unchanged; with 20 or more it sets and returns a point of the
\* 26-point grid 0.5, 0.6 .. 3.0 whose Brier score over the buffer is at most
\* that of every other point, the lowest such point; it never changes the
\* buffer or the threshold.
C15_OptimizeTemperature ==
    LastCall("optimize_temperature") =>
        /\ threshold = ta_call.before.threshold
        /\ calibration_data = ta_call.before.calibration_data
        /\ ta_call.result = temperature
        /\ Len(calibration_data) < 20 => temperature = ta_call.before.temperature
        /\ Len(calibration_data) >= 20 =>
              /\ temperature \in 5..30
              /\ \A temp \in 5..30 :
                    /\ BrierAt(calibration_data, temperature)
                          <= BrierAt(calibration_data, temp)
                    /\ BrierAt(calibration_data, temperature)
                          = BrierAt(calibration_data, temp) => temperature <= temp

\* twenty samples on which every temperature has the same Brier score: the
\* agent moves from 1.5 to the lowest grid point
C15_Witness ==
    /\ LastCall("optimize_temperature")
    /\ Len(calibration_data) = 20
    /\ ta_call.before.temperature = 15
    /\ temperature = 5
    /\ BrierAt(calibration_data, 5) = BrierAt(calibration_data, 30)
\* samples on which the Brier scores differ
C15_SearchWitness ==
    /\ LastCall("optimize_temperature")
    /\ Len(calibration_data) >= 20
    /\ temperature # ta_call.before.temperature
    /\ BrierAt(calibration_data, temperature) < BrierAt(calibration_data, 5)
\* too few samples
C15_FewWitness ==
    /\ LastCall("optimize_temperature")
    /\ Len(calibration_data) = 19
    /\ temperature = 15

\* add_calibration_sample left the most recent samples, in insertion order
AddedLast ==
    LastCall("add_calibration_sample") =>
        /\ Len(calibration_data) = Min(Len(ta_call.before.calibration_data) + 1, 100)
        /\ calibration_data[Len(calibration_data)]
               = Sample(ta_call.args[1], ta_call.args[2])
        /\ \A k \in 1..(Len(calibration_data) - 1) :
              calibration_data[k]
                 = ta_call.before.calibration_data[
                       Len(ta_call.before.calibration_data) - Len(calibration_data) + 1 + k]

\* C16 as stated: after any sequence of add_calibration_sample,
\* load_calibration_data, compute_calibration_metrics, optimize_temperature
\* and calibrate_decision the buffer holds at most 100 samples, and after
\* add_calibration_sample it holds the most recently added samples in
\* insertion order, the oldest evicted first.
C16_BufferBound ==
    /\ Len(calibration_data) <= 100
    /\ AddedLast
\* what holds of the buffer: add_calibration_sample leaves at most 100
\* samples, the most recent ones in order, and the calls that only read the
\* buffer leave it as it is
C16_AddEvicts ==
    /\ AddedLast
    /\ LastCall("add_calibration_sample") => Len(calibration_data) <= 100
    /\ (LastCall("compute_calibration_metrics") \/ LastCall("optimize_temperature"))
          => calibration_data = ta_call.before.calibration_data
\* the buffer after load_calibration_data read a file of more than 100 samples
C16_LoadWitness ==
    /\ LastCall("load_calibration_data")
    /\ Len(calibration_data) > 100
\* an add on a full buffer
C16_EvictWitness ==
    /\ LastCall("add_calibration_sample")
    /\ Len(ta_call.before.calibration_data) = 100
    /\ Len(calibration_data) = 100
    /\ calibration_data[1] = ta_call.before.calibration_data[2]

(***************************************************************************)
(* Explanations                                                            *)
(***************************************************************************)
\* the last explain() call returned a record
ExplainReturned == xp_args # <<>> /\ ~xp_result.raised
\* the larger of the two scores of the last explain() call
MaxScore == Max(xp_args.trust_score, xp_args.anomaly_score)

\* C17: the threat level in explanation['scores'] is a function of
\* m = max(trust_score, anomaly_score) alone: CRITICAL when m >= 0.9, HIGH when
\* 0.7 <= m < 0.9, MEDIUM when 0.5 <= m < 0.7 and LOW below 0.5.
C17_ThreatLevel ==
    ExplainReturned =>
        /\ xp_result.value.scores.threat_level = "CRITICAL"
               <=> MaxScore >= 9 * (FxScale \div 10)
        /\ xp_result.value.scores.threat_level = "HIGH"
               <=> MaxScore >= 7 * (FxScale \div 10) /\ MaxScore < 9 * (FxScale \div 10)
        /\ xp_result.value.scores.threat_level = "MEDIUM"
               <=> MaxScore >= 5 * (FxScale \div 10) /\ MaxScore < 7 * (FxScale \div 10)
        /\ xp_result.value.scores.threat_level = "LOW"
               <=> MaxScore < 5 * (FxScale \div 10)
\* a low trust score next to an anomaly score of 0.9 is reported CRITICAL
C17_Witness ==
    /\ ExplainReturned
    /\ xp_args.trust_score = 9 * (FxScale \div 20)
    /\ xp_args.anomaly_score = 9 * (FxScale \div 10)
    /\ xp_result.value.scores.threat_level = "CRITICAL"
\* a trust score of 0.7 above a lower anomaly score is reported HIGH
C17_TrustWitness ==
    /\ ExplainReturned
    /\ xp_args.trust_score = 7 * (FxScale \div 10)
    /\ xp_args.anomaly_score = 13 * (FxScale \div 20)
    /\ xp_result.value.scores.threat_level = "HIGH"

\* the LLM call of the last explain() was made and failed
LlmCallFailed ==
    /\ xp_args # <<>>
    /\ ~("message" \in DOMAIN xp_args.event /\ xp_args.event.message.t # "str")
    /\ xp_args.http.kind # "ok"
\* s begins with prefix
BeginsWith(s, prefix) == Len(s) >= Len(prefix) /\ SubSeq(s, 1, Len(prefix)) = prefix
\* the two notices explain() puts in place of the narrative
FailureNotice(s) ==
    \/ BeginsWith(s, <<"E", "r", "r", "e", "u", "r", " ", "L", "L", "M", ":", " ">>)
    \/ BeginsWith(s, <<"E", "x", "p", "l", "i", "c", "a", "t", "i", "o", "n", " ", "a", "u", "t", "o", "m", "a", "t", "i", "q", "u", "e", " ", "n", "o", "n", " ", "d", "i", "s", "p", "o", "n", "i", "b", "l", "e", ":", " ">>)
\* the explanation of the same call when the LLM answers
WithAnswer ==
    explain(xp_args.event, xp_args.mitre_techniques, xp_args.anomaly_score,
            xp_args.trust_score, [kind |-> "ok", status |-> 200, content |-> R_malicious]).value

\* C18: when the LLM call made by explain() fails, by raising or by returning an
\* error result, explain() raises nothing and returns the complete record: the
\* 'explanation' entry is a failure notice and every other entry is what it is
\* when the LLM answers.
C18_LlmFailure ==
    LlmCallFailed =>
        /\ ~xp_result.raised
        /\ {"summary", "explanation", "decision_factors", "mitre_mapping", "scores",
            "recommendations", "attribution"} \subseteq DOMAIN xp_result.value
        /\ FailureNotice(xp_result.value.explanation)
        /\ [xp_result.value EXCEPT !.explanation = <<>>]
               = [WithAnswer EXCEPT !.explanation = <<>>]
\* the LLM call raised: the body of a 2xx answer had no 'choices'
C18_Witness ==
    /\ LlmCallFailed
    /\ xp_args.http = [kind |-> "nochoices", status |-> 200]
    /\ ~xp_result.raised
    /\ xp_result.value.explanation
           = <<"E", "x", "p", "l", "i", "c", "a", "t", "i", "o", "n", " ", "a", "u", "t", "o", "m", "a", "t", "i", "q", "u", "e", " ", "n", "o", "n", " ", "d", "i", "s", "p", "o", "n", "i", "b", "l", "e", ":", " ">>
                 \o ExceptionText(xp_args.http)
    /\ Len(xp_result.value.recommendations) = 3
\* the LLM call returned an error result after a timeout
C18_ErrorResultWitness ==
    /\ LlmCallFailed
    /\ xp_args.http.kind = "timeout"
    /\ ~xp_result.raised
    /\ BeginsWith(xp_result.value.explanation, <<"E", "r", "r", "e", "u", "r", " ", "L", "L", "M", ":", " ">>)

(***************************************************************************)
(* The pipeline when the LLM or a stage fails                              *)
(***************************************************************************)
\* the last call was process_event on an event no stage was made to fail on
EventCall == pl_call.op = "process_event" /\ pl_call.items[1].fault = 0
\* the exchange brought no 2xx answer: a timeout, a transport failure or an
\* answer of another status
NoSuccessAnswer(http) ==
    http.kind \in {"timeout", "connection"} \/ http.status \notin 200..299
\* process_event returned, its five stages completed, on an LLM confidence of 0
\* and an analysis that carries the error string
RanOnZeroConfidence ==
    /\ ~pl_call.raised
    /\ \A step \in {"anomaly_detection", "llm_analysis", "trust_calibration",
                    "mitre_mapping", "xai_explanation"} :
           pl_call.returned[1].pipeline_steps[step] = "completed"
    /\ pl_call.returned[1].llm_analysis.confidence = 0
    /\ BeginsWith(pl_call.returned[1].llm_analysis.explanation,
                  <<"E", "r", "r", "e", "u", "r", " ", "L", "L", "M", ":", " ">>)
    /\ pl_call.returned[1].trust_analysis.sources.llm_confidence = 0
    /\ "scores" \in DOMAIN pl_call.returned[1].explanation
    /\ pl_results = Append(pl_call.before.results, pl_call.returned[1])

\* C19: when the LLM request of stage 2 times out, fails in transport or is
\* answered with a status that is not 2xx, query returns confidence 0.0 and an
\* error string, and process_event runs stages 3, 4 and 5 to completion on an
\* LLM confidence of 0.
C19_AsStated ==
    /\ \A http \in {h \in HttpExchanges : NoSuccessAnswer(h)} :
           /\ ~query(http).raised
           /\ query(http).value.confidence = 0
           /\ "error" \in DOMAIN query(http).value
    /\ EventCall /\ NoSuccessAnswer(pl_call.items[1].analysis_http)
           => RanOnZeroConfidence
\* the same for the exchanges requests reports as exceptions: timeout, failed
\* connection, status 4xx or 5xx
C19_RequestFailures ==
    /\ \A http \in HttpFailures :
           /\ ~query(http).raised
           /\ query(http).value.confidence = 0
           /\ query(http).value.error = ExceptionText(http)
    /\ EventCall /\ pl_call.items[1].analysis_http \in HttpFailures
           => RanOnZeroConfidence
\* a timeout in stage 2, and the event is in the results with an alert decided
\* on the two other sources
C19_TimeoutWitness ==
    /\ EventCall
    /\ pl_call.items[1].analysis_http.kind = "timeout"
    /\ RanOnZeroConfidence
    /\ pl_stats.total_events = 1
\* an answer of status 304 whose body has no 'choices': process_event raises
C19_NotModifiedWitness ==
    /\ EventCall
    /\ pl_call.items[1].analysis_http = [kind |-> "nochoices", status |-> 304]
    /\ pl_call.raised
    /\ pl_call.stage = 2

\* the event fails in one of the five stages: a fault, or a stage 2 answer
\* without 'choices' that raise_for_status lets through
ItemFails(item) ==
    \/ item.fault # 0
    \/ item.analysis_http.kind = "nochoices" /\ ~RaisesForStatus(item.analysis_http)
Passes(item) == ~ItemFails(item)
\* the events of the last batch that do not fail, in order
Survivors == SelectSeq(pl_call.items, Passes)
\* the technique ids of a list of results
RECURSIVE TechniquesOf(_)
TechniquesOf(results) ==
    IF results = <<>> THEN {}
    ELSE {Head(results).mitre_techniques[k].technique_id :
              k \in 1..Len(Head(results).mitre_techniques)}
             \cup TechniquesOf(Tail(results))
\* the batch went through every event: the results returned are those of the
\* events that do not fail, in order, and they are appended to self.results
BatchWentThrough ==
    /\ ~pl_call.raised
    /\ Len(pl_call.returned) = Len(Survivors)
    /\ \A k \in 1..Len(Survivors) :
           /\ pl_call.returned[k].event
                  = WithId(Events[Survivors[k].id],
                           event_id(<<>>, pl_call.before.stats.total_events + k - 1))
           /\ pl_call.returned[k].processing_time = Survivors[k].elapsed
    /\ pl_results = pl_call.before.results \o pl_call.returned
\* the four counters and times are those of before, moved by the returned
\* results alone
CountersOfReturned ==
    /\ pl_stats.total_events = pl_call.before.stats.total_events + Len(pl_call.returned)
    /\ pl_stats.anomalies_detected
           = pl_call.before.stats.anomalies_detected
                 + Cardinality({k \in 1..Len(pl_call.returned) :
                                    pl_call.returned[k].anomaly_analysis.is_anomaly})
    /\ pl_stats.alerts_generated
           = pl_call.before.stats.alerts_generated
                 + Cardinality({k \in 1..Len(pl_call.returned) :
                                    pl_call.returned[k].trust_analysis.should_alert})
    /\ pl_stats.processing_times
           = pl_call.before.stats.processing_times
                 \o [k \in 1..Len(pl_call.returned) |->
                        pl_call.returned[k].processing_time]

\* C20: when stages raise during process_batch, the batch goes on through
\* every later event in order, the failed events are absent from the returned
\* results, and total_events, anomalies_detected, alerts_generated,
\* techniques_detected and processing_times are what the events that did not
\* fail make them.
C20_AsStated ==
    pl_call.op = "process_batch" =>
        /\ BatchWentThrough
        /\ CountersOfReturned
        /\ pl_stats.techniques_detected
               = pl_call.before.stats.techniques_detected
                     \cup TechniquesOf(pl_call.returned)
\* what holds of a batch: it goes through, the counters and the times reflect
\* the returned results alone, and techniques_detected holds their techniques
C20_BatchContinues ==
    pl_call.op = "process_batch" =>
        /\ BatchWentThrough
        /\ CountersOfReturned
        /\ pl_call.before.stats.techniques_detected \cup TechniquesOf(pl_call.returned)
               \subseteq pl_stats.techniques_detected
\* a batch whose second event fails in stage 5 after the mapper found a
\* technique for it: the third event is processed, and the technique of the
\* failed one is in techniques_detected
C20_FailedEventCounted ==
    /\ pl_call.op = "process_batch"
    /\ Len(pl_call.items) = 3
    /\ pl_call.items[2].fault = 5
    /\ Passes(pl_call.items[1]) /\ Passes(pl_call.items[3])
    /\ Len(pl_call.returned) = 2
    /\ pl_stats.total_events = 2
    /\ pl_stats.techniques_detected \ TechniquesOf(pl_call.returned) # {}
\* a batch whose first event fails in stage 2 and whose second passes
C20_ContinueWitness ==
    /\ pl_call.op = "process_batch"
    /\ Len(pl_call.items) = 2
    /\ pl_call.items[1].analysis_http.kind = "nochoices"
    /\ Passes(pl_call.items[2])
    /\ Len(pl_call.returned) = 1
    /\ pl_stats.total_events = 1

(***************************************************************************)
(* Stage order                                                             *)
(***************************************************************************)
\* the five stages in the order of the pipeline
FiveStages ==
    <<"anomaly_detection", "llm_analysis", "trust_calibration", "mitre_mapping",
      "xai_explanation">>

\* C21: process_event sets the completion flags in the order anomaly detection,
\* LLM analysis, trust calibration, technique mapping, explanation synthesis: at
\* the end of a call the flags set are the first ones of that order, those of
\* the stages before the one that raised, and a result that is returned has all
\* five set to 'completed'.
C21_StageOrder ==
    pl_call.op = "process_event" =>
        /\ Len(pl_call.steps) <= 5
        /\ pl_call.steps = SubSeq(FiveStages, 1, Len(pl_call.steps))
        /\ pl_call.raised => Len(pl_call.steps) = pl_call.stage - 1
        /\ ~pl_call.raised =>
               /\ pl_call.steps = FiveStages
               /\ pl_call.returned[1].pipeline_steps
                      = [step \in {FiveStages[k] : k \in 1..5} |-> "completed"]
\* an event that passes the five stages
C21_Witness ==
    /\ pl_call.op = "process_event"
    /\ ~pl_call.raised
    /\ pl_call.steps = FiveStages
    /\ DOMAIN pl_call.returned[1].pipeline_steps = {FiveStages[k] : k \in 1..5}
\* an event for which the mapper raises: three flags are set
C21_FourthStageWitness ==
    /\ pl_call.op = "process_event"
    /\ pl_call.raised
    /\ pl_call.stage = 4
    /\ pl_call.steps = SubSeq(FiveStages, 1, 3)

(***************************************************************************)
(* Time since the last similar event                                       *)
(***************************************************************************)
\* the timestamp the current call compares with: that of the event, or the
\* clock when the event has none; ok is FALSE when it is no ISO string
CurrentTime ==
    IF "timestamp" \notin DOMAIN Events[fx_event] THEN FromIsoformat(IsoFormat(fx_now))
    ELSE IF TimestampOf(fx_event).t = "str"
    THEN FromIsoformat(ReplaceZ(TimestampOf(fx_event).v))
    ELSE BadDate
\* the positions of the history of the current call whose entry has the src_ip
\* and the event_type of the current event
SimilarPositions ==
    {k \in 1..Len(fx_before) :
         SharesSrcIp(fx_before[k], fx_event) /\ SharesEventType(fx_before[k], fx_event)}
\* the timestamp of the entry at position k, ok FALSE when it is absent, not a
\* string or no ISO string
EntryTime(k) ==
    IF TimestampOf(fx_before[k]).t = "str"
    THEN FromIsoformat(ReplaceZ(TimestampOf(fx_before[k]).v))
    ELSE BadDate
\* the entry's time can be subtracted from the current one: it parses, and both
\* carry a UTC offset or neither does
Usable(k) == EntryTime(k).ok /\ EntryTime(k).aware = CurrentTime.aware
\* max(elapsed seconds, 0.1) from the entry at position k
ElapsedSince(k) ==
    IF EpochSeconds(CurrentTime) - EpochSeconds(EntryTime(k)) >= 1
    THEN Ratio(EpochSeconds(CurrentTime) - EpochSeconds(EntryTime(k)), 1)
    ELSE Ratio(1, 10)
Newest(S) == CHOOSE k \in S : \A j \in S : j <= k
Sentinel == Ratio(9999, 1)

\* C22 as stated: time_since_last_similar is decided by the newest history
\* entry with the src_ip and event_type of the event: max(elapsed, 0.1) when
\* both timestamps parse, 9999.0 when no entry matches or the timestamp of the
\* event or of that newest matching entry does not parse; no older matching
\* entry has an influence.
C22_AsStated ==
    (Called /\ ~fx_raised) =>
        fx_features["time_since_last_similar"] =
            IF ~CurrentTime.ok \/ SimilarPositions = {} THEN Sentinel
            ELSE IF ~Usable(Newest(SimilarPositions)) THEN Sentinel
            ELSE ElapsedSince(Newest(SimilarPositions))
\* C22: time_since_last_similar is decided by the newest matching history entry
\* whose timestamp is usable (it parses and can be subtracted from that of the
\* event): max(elapsed, 0.1) from that entry, 9999.0 when the timestamp of the
\* event does not parse or no matching entry has a usable timestamp; newer
\* matching entries with unusable timestamps are passed over, older ones have
\* no influence.
C22_NewestUsable ==
    (Called /\ ~fx_raised) =>
        fx_features["time_since_last_similar"] =
            IF ~CurrentTime.ok \/ {k \in SimilarPositions : Usable(k)} = {} THEN Sentinel
            ELSE ElapsedSince(Newest({k \in SimilarPositions : Usable(k)}))
\* the newest matching entry has a timestamp that is no string, an older one
\* parses, and the elapsed time from the older one is reported
C22_Witness ==
    /\ Called /\ ~fx_raised
    /\ CurrentTime.ok
    /\ SimilarPositions # {}
    /\ ~Usable(Newest(SimilarPositions))
    /\ \E k \in SimilarPositions : Usable(k)
    /\ fx_features["time_since_last_similar"] # Sentinel
\* the newest matching entry parses and lies 5 seconds back
C22_ElapsedWitness ==
    /\ Called /\ ~fx_raised
    /\ SimilarPositions # {}
    /\ Usable(Newest(SimilarPositions))
    /\ fx_features["time_since_last_similar"] = Ratio(5, 1)
\* the floor: a matching entry with the timestamp of the event itself
C22_FloorWitness ==
    /\ Called /\ ~fx_raised
    /\ SimilarPositions # {}
    /\ Usable(Newest(SimilarPositions))
    /\ fx_features["time_since_last_similar"] = Ratio(1, 10)

(***************************************************************************)
(* Behavioural features                                                    *)
(***************************************************************************)
\* the message of event id, lower-cased, contains 'failed' or 'denied'
MentionsFailure(id) ==
    /\ "message" \in DOMAIN Events[id]
    /\ \/ Contains(Lower(Events[id]["message"].v), <<"f", "a", "i", "l", "e", "d">>)
       \/ Contains(Lower(Events[id]["message"].v), <<"d", "e", "n", "i", "e", "d">>)
\* the entries among the last n of the history of the current call that have
\* the src_ip of the current event
RecentSameIp(n) ==
    {k \in LastPositions(fx_before, n) : SharesSrcIp(fx_before[k], fx_event)}

\* C23: is_repeated_failure is 1 exactly when the message of the event contains
\* 'failed' or 'denied' and at least 3 of the last 20 history entries have its
\* src_ip and such a message; is_rapid_succession is 1 exactly when at least 5
\* of the last 10 history entries have its src_ip; the history is the one
\* before the call, without the current event.
C23_BehaviouralFlags ==
    (Called /\ ~fx_raised) =>
        /\ fx_features["is_repeated_failure"] \in {0, 1}
        /\ fx_features["is_rapid_succession"] \in {0, 1}
        /\ fx_features["is_repeated_failure"] = 1
               <=> /\ MentionsFailure(fx_event)
                   /\ Cardinality({k \in RecentSameIp(20) :
                                       MentionsFailure(fx_before[k])}) >= 3
        /\ fx_features["is_rapid_succession"] = 1
               <=> Cardinality(RecentSameIp(10)) >= 5
\* a failure message after a history in which exactly 2 of the last 20 entries
\* are failures of the same src_ip: the flag is 0, the current event is not the
\* third
C23_Witness ==
    /\ Called /\ ~fx_raised
    /\ MentionsFailure(fx_event)
    /\ Cardinality({k \in RecentSameIp(20) : MentionsFailure(fx_before[k])}) = 2
    /\ fx_features["is_repeated_failure"] = 0
\* both flags raised
C23_RaisedWitness ==
    /\ Called /\ ~fx_raised
    /\ fx_features["is_repeated_failure"] = 1
    /\ fx_features["is_rapid_succession"] = 1
\* five failures of the same src_ip in the history, all of them older than the
\* last 20 entries: neither flag is raised
C23_WindowWitness ==
    /\ Called /\ ~fx_raised
    /\ MentionsFailure(fx_event)
    /\ Cardinality({k \in 1..Len(fx_before) :
                        /\ SharesSrcIp(fx_before[k], fx_event)
                        /\ MentionsFailure(fx_before[k])}) >= 5
    /\ fx_features["is_repeated_failure"] = 0
    /\ fx_features["is_rapid_succession"] = 0


\* the position in the knowledge base of the row a match was made from
RowOf(m) == CHOOSE r \in 1..Len(minimal_data) : minimal_data[r].technique = m.technique_id
\* two matches of the same confidence
SameConfidence(a, b) == ~MoreConfident(a, b) /\ ~MoreConfident(b, a)

\* C24: the list map_event returns is ordered by non-increasing confidence,
\* and matches of equal confidence keep the order of their rows in the
\* knowledge base.
C24_SortedStable ==
    map_arg # 0 =>
        \A i, j \in 1..Len(map_result) :
            i < j => /\ ~MoreConfident(map_result[j], map_result[i])
                     /\ SameConfidence(map_result[i], map_result[j])
                            => RowOf(map_result[i]) < RowOf(map_result[j])

\* a call returned two matches of the same confidence after a more confident
\* match whose row lies between theirs in the knowledge base
C24_Witness ==
    /\ map_arg # 0
    /\ Len(map_result) = 3
    /\ MoreConfident(map_result[1], map_result[2])
    /\ SameConfidence(map_result[2], map_result[3])
    /\ RowOf(map_result[2]) < RowOf(map_result[1])
    /\ RowOf(map_result[1]) < RowOf(map_result[3])

\* the recommendations of the last explanation begin with those of a level
BeginWithLevel(threat_level) ==
    LET recommendations == xp_result.value.recommendations
        expected == LevelRecommendations(threat_level, xp_args.event)
    IN  /\ Len(recommendations) >= Len(expected)
        /\ SubSeq(recommendations, 1, Len(expected)) = expected

\* C25 as stated: in every explanation the threat-level recommendations are
\* those of the threat level in the explanation's scores: CRITICAL gives the
\* urgent block and the deep investigation, HIGH the monitoring and the rate
\* limiting, MEDIUM the log-for-trend-analysis entry, LOW the standard logging.
C25_AsStated ==
    ExplainReturned => BeginWithLevel(xp_result.value.scores.threat_level)

\* the threat-level recommendations are those of the level of the trust score
\* alone, whatever the anomaly score
C25_LevelOfTrust ==
    ExplainReturned => BeginWithLevel(_calculate_threat_level(xp_args.trust_score, 0))

\* an explanation whose scores say CRITICAL recommends standard logging
C25_MismatchWitness ==
    /\ ExplainReturned
    /\ xp_args.trust_score = 9 * (FxScale \div 20)
    /\ xp_args.anomaly_score = 9 * (FxScale \div 10)
    /\ xp_result.value.scores.threat_level = "CRITICAL"
    /\ xp_result.value.recommendations[1].action = "Logging standard"

\* every match a map_event() call of this mapper returned, in order
ReturnedMatches ==
    LET RECURSIVE Flat(_)
        Flat(k) == IF k = 0 THEN <<>> ELSE Flat(k - 1) \o map_log[k]
    IN  Flat(Len(map_log))
\* the statistics equal what the calls of map_event returned so far
StatisticsOfReturned ==
    /\ statistics.total_mappings = Len(ReturnedMatches)
    /\ statistics.techniques_detected
           = {ReturnedMatches[i].technique_id : i \in 1..Len(ReturnedMatches)}
    /\ statistics.tactics_detected
           = {ReturnedMatches[i].tactic : i \in 1..Len(ReturnedMatches)}
\* no step makes a statistic smaller
StatisticsGrow ==
    /\ statistics'.total_mappings >= statistics.total_mappings
    /\ statistics.techniques_detected \subseteq statistics'.techniques_detected
    /\ statistics.tactics_detected \subseteq statistics'.tactics_detected

\* C26: after any sequence of map_event and create_mitre_matrix calls on one
\* mapper, total_mappings is the number of matches returned by all map_event
\* invocations, those made inside create_mitre_matrix included,
\* techniques_detected and tactics_detected are the sets of all technique ids
\* and tactics ever returned, and no step makes any of the three smaller.
C26_Statistics == [](StatisticsOfReturned) /\ [][StatisticsGrow]_vars

\* a create_mitre_matrix over three events, after a map_event call, has left
\* the statistics with the matches of all four invocations
C26_Witness ==
    /\ mx_result.called
    /\ Len(mx_arg) = 3
    /\ Len(map_log) = 4
    /\ statistics.total_mappings = 9
    /\ Cardinality(statistics.techniques_detected) = 5
\* the matrix counts a technique once for every event that matched it
C26_MatrixWitness ==
    /\ mx_result.called
    /\ mx_arg = <<9, 1, 9>>
    /\ \E row \in mx_result.rows : row.technique = "T1110" /\ row.occurrences = 3
    /\ \E row \in mx_result.rows : row.technique = "T1046" /\ row.occurrences = 2

\* the last call was a process_batch
BatchReturned == pl_call.op = "process_batch"
\* the positions in the batch of the events that arrived without an id
WithoutId == {k \in 1..Len(pl_call.items) : pl_call.items[k].given_id = <<>>}

\* C27 as stated: within one run the identifiers process_event generates for
\* events arriving without an id are pairwise distinct, in every batch, also
\* when some events of the batch fail in a stage and are skipped.
C27_AsStated ==
    BatchReturned =>
        \A i, j \in WithoutId : i # j => pl_call.ids[i] # pl_call.ids[j]

\* the identifiers in the results a batch returns are pairwise distinct, and
\* an event that fails is given the identifier of the next event that passes
C27_ReturnedDistinct ==
    BatchReturned =>
        /\ Len(pl_call.ids) = Len(pl_call.items)
        /\ \A i, j \in 1..Len(pl_call.returned) :
               i # j => pl_call.returned[i].event.id # pl_call.returned[j].event.id
        /\ \A i \in WithoutId :
               pl_call.ids[i]
                   = <<"e", "v", "t", "_">>
                         \o Decimal(pl_call.before.stats.total_events
                                        + Cardinality({k \in 1..(i - 1) : Passes(pl_call.items[k])}))

\* a batch whose first event failed in stage 4 and whose second event passed:
\* both were named evt_0
C27_SharedIdWitness ==
    /\ BatchReturned
    /\ Len(pl_call.items) = 2
    /\ pl_call.items[1].fault = 4
    /\ Len(pl_call.returned) = 1
    /\ pl_call.ids = <<<<"e", "v", "t", "_", "0">>, <<"e", "v", "t", "_", "0">>>>
    /\ pl_call.returned[1].event.id = PyStr(<<"e", "v", "t", "_", "0">>)

\* the number of stored results that satisfy Test
Stored(Test(_)) == Cardinality({k \in 1..Len(pl_results) : Test(pl_results[k])})
IsAnomaly(result) == result.anomaly_analysis.is_anomaly
ShouldAlert(result) == result.trust_analysis.should_alert
\* the four counters of the run against the stored results
CountersOfStored ==
    /\ pl_stats.total_events = Len(pl_results)
    /\ Len(pl_stats.processing_times) = Len(pl_results)
    /\ pl_stats.anomalies_detected = Stored(IsAnomaly)
    /\ pl_stats.alerts_generated = Stored(ShouldAlert)

\* C28 as stated: after any sequence of process_event calls, successful or
\* failing, total_events = len(results) = len(processing_times),
\* anomalies_detected is the number of stored results with is_anomaly,
\* alerts_generated the number with should_alert, and techniques_detected is
\* the union of the technique ids in the stored results.
C28_AsStated ==
    CountersOfStored /\ pl_stats.techniques_detected = TechniquesOf(pl_results)

\* the four counters are those of the stored results, and techniques_detected
\* holds the technique ids of the stored results and of the events that
\* failed after stage 4
C28_CountersOfStored ==
    CountersOfStored /\ TechniquesOf(pl_results) \subseteq pl_stats.techniques_detected

\* process_event raised in stage 5: nothing is stored, and the techniques of
\* the event are in techniques_detected
C28_FailedEventWitness ==
    /\ pl_call.op = "process_event"
    /\ pl_call.raised
    /\ pl_call.stage = 5
    /\ pl_results = <<>>
    /\ pl_stats.total_events = 0
    /\ pl_stats.techniques_detected # {}

\* compute_calibration_metrics was the last call and computed the ECE
EceComputed ==
    /\ LastCall("compute_calibration_metrics")
    /\ Len(calibration_data) >= MetricsMin
\* the predictions the ECE was computed on
EcePredictions == [k \in 1..Len(calibration_data) |-> calibration_data[k].prediction]
\* the bins, numbered as range(n_bins), that hold sample k
BinsOf(k) == {i \in 0..(n_bins - 1) : k \in InBin(EcePredictions, i)}
\* the samples over all bins: the numerator of the sum of the bin weights
BinnedSamples ==
    SumTo([i \in 1..n_bins |-> Cardinality(InBin(EcePredictions, i - 1))], n_bins)

\* C29 as stated: in _compute_ece every sample with a prediction in [0, 1],
\* exactly 0.0 and exactly 1.0 included, falls into exactly one of the 10 bins,
\* so the weights of the non-empty bins sum to 1.
C29_AsStated ==
    EceComputed =>
        /\ \A k \in 1..Len(calibration_data) : Cardinality(BinsOf(k)) = 1
        /\ BinnedSamples = Len(calibration_data)

\* every sample with a prediction below 1.0 falls into exactly one bin, a
\* sample with prediction 1.0 into none, and the bin weights sum to the share
\* of the samples below 1.0
C29_HalfOpenBins ==
    EceComputed =>
        /\ \A k \in 1..Len(calibration_data) :
               Cardinality(BinsOf(k)) = IF EcePredictions[k] < FxScale THEN 1 ELSE 0
        /\ BinnedSamples
               = Cardinality({k \in 1..Len(calibration_data) : EcePredictions[k] < FxScale})

\* the ECE was computed on a buffer with a sample of prediction 1.0, which no
\* bin holds, and a sample of prediction 0.0, which the first bin holds
C29_UnbinnedWitness ==
    /\ EceComputed
    /\ \E k \in 1..Len(calibration_data) :
           EcePredictions[k] = FxScale /\ BinsOf(k) = {}
    /\ \E k \in 1..Len(calibration_data) :
           EcePredictions[k] = 0 /\ BinsOf(k) = {0}
    /\ BinnedSamples < Len(calibration_data)

\* the agent as SOCPipeline builds it: TrustAgent(temperature=1.5, threshold=0.7)
PipelineDefaults == temperature = 15 /\ threshold = 7 * (FxScale \div 10)
\* the scores of [0, 1] in steps of 0.05
UnitGrid == {k * (FxScale \div 20) : k \in 0..20}
\* the decision on an event whose LLM call failed, with the pipeline defaults
DecisionWithoutLlm(anomaly_score, heuristic_score) ==
    calibrate_decision(0, anomaly_score, heuristic_score, 15, 7 * (FxScale \div 10))

\* C30 as stated: with the pipeline defaults (weights 0.4/0.4/0.2, temperature
\* 1.5, threshold 0.7) there are an anomaly_score and a heuristic_score of
\* [0, 1] for which an event with LLM confidence 0.0 gets should_alert = true.
C30_AsStated ==
    PipelineDefaults =>
        \E anomaly_score \in UnitGrid, heuristic_score \in UnitGrid :
            calibrate_decision(0, anomaly_score, heuristic_score, temperature,
                               threshold).should_alert

\* with the pipeline defaults a decision made on LLM confidence 0.0 never
\* alerts: its calibrated score is at most that of anomaly 1.0 and heuristic
\* 1.0, which is below the threshold
C30_NoAlertWithoutLlm ==
    (Decided /\ PipelineDefaults /\ td_args[1] = 0) =>
        /\ td_analysis.should_alert = FALSE
        /\ td_analysis.raw_score <= 6 * (FxScale \div 10)
        /\ td_analysis.calibrated_score <= DecisionWithoutLlm(FxScale, FxScale).calibrated_score
        /\ DecisionWithoutLlm(FxScale, FxScale).calibrated_score < threshold

\* the decision on LLM confidence 0.0, anomaly 1.0 and heuristic 1.0 with the
\* defaults: raw score 0.6, no alert
C30_SuppressedWitness ==
    /\ Decided /\ PipelineDefaults
    /\ td_args = <<0, FxScale, FxScale>>
    /\ td_analysis.raw_score = 6 * (FxScale \div 10)
    /\ td_analysis.calibrated_score < 6 * (FxScale \div 10)
    /\ td_analysis.should_alert = FALSE
====
